---- MODULE Spec2Model ----
(***************************************************************************)
(* Cost-based query optimizer and executor (Query_Optimizer).              *)
(*                                                                         *)
(* Representation choices                                                  *)
(*   std::string that the code searches or slices (condition texts,        *)
(*     column and table names) is a sequence of one-character strings, so  *)
(*     that find/substr are computed character by character.               *)
(*   std::any is a tagged value [t, i, s]: t is the held type.             *)
(*   double is an exact fixed-point number [w, f] = w + f/800: every cost  *)
(*     constant of the code is a multiple of 1/800.  std::log2 is the only *)
(*     irrational step; Log2 computes it to 10 fractional bits.            *)
(*   std::unique_ptr<PlanNode> is a record; nullptr is the record NULLPTR. *)
(***************************************************************************)
EXTENDS Integers, Sequences, FiniteSets, TLC

VARIABLES
    tables,        \* TableManager::tables : table name -> [schema, rows]
    table_stats,   \* CostModel::table_stats : table name -> TableStatistics
    pb_stats,      \* PlanBuilder::table_stats : table name -> Statistics
    stmt,          \* the SelectStatement the driver holds (NOSTMT: none yet)
    candidates,    \* the driver's std::vector<PlanCandidate>
    generated,     \* TRUE once generate_all_plans(stmt) filled candidates
    best_plan,     \* the driver's std::unique_ptr<PlanNode> (optimize / select_best_plan)
    best_from,     \* which call produced best_plan: "none", "optimize", "select"
    exec_plan,     \* the plan last handed to Executor::execute (NULLPTR: none)
    result         \* what that call produced: a ResultSet or a thrown error

vars == <<tables, table_stats, pb_stats, stmt, candidates, generated,
          best_plan, best_from, exec_plan, result>>

-----------------------------------------------------------------------------
(* Bounds of the model *)

\* rows that PopulateSampleData loads into users / orders in Spec
NumUsers == 3
NumOrders == 6

\* rows that AddRow may append to users after the sample data
MaxExtraRows == 2

-----------------------------------------------------------------------------
(* std::string *)

NPOS == -1

\* std::string::find(sub): position (from 0) of the first occurrence, or npos
Find(s, sub) ==
    LET hits == { p \in 0..(Len(s) - Len(sub)) :
                    SubSeq(s, p + 1, p + Len(sub)) = sub }
    IN  IF hits = {} THEN NPOS
        ELSE CHOOSE p \in hits : \A q \in hits : p <= q

\* std::string::substr(pos)
Substr(s, pos) == SubSeq(s, pos + 1, Len(s))

S_star == <<"*">>
S_dot == <<".">>
S_sp == <<" ">>
S_lpar == <<"(">>
S_rpar == <<")">>
S_id == <<"i","d">>
S_name == <<"n","a","m","e">>
S_age == <<"a","g","e">>
S_city == <<"c","i","t","y">>
S_user_id == <<"u","s","e","r","_","i","d">>
S_product == <<"p","r","o","d","u","c","t">>
S_amount == <<"a","m","o","u","n","t">>
S_users == <<"u","s","e","r","s">>
S_orders == <<"o","r","d","e","r","s">>
S_products == <<"p","r","o","d","u","c","t","s">>
S_25 == <<"2","5">>
S_30 == <<"3","0">>
S_empty == <<>>
S_age_gt_25 == <<"a","g","e"," ",">"," ","2","5">>
S_age_lt_30 == <<"a","g","e"," ","<"," ","3","0">>
S_id_eq == <<"i","d"," ","="," ">>
S_eq_sp == <<"="," ">>
S_eq == <<"=">>
S_gt == <<">">>
S_lt == <<"<">>
S_join_cond == <<"u","s","e","r","s",".","i","d"," ","="," ",
                 "o","r","d","e","r","s",".","u","s","e","r","_","i","d">>

-----------------------------------------------------------------------------
(* double *)

Dbl(w, f) == [w |-> w + (f \div 800), f |-> f % 800]

DZero == Dbl(0, 0)

DAdd(a, b) == Dbl(a.w + b.w, a.f + b.f)

DLess(a, b) == a.w < b.w \/ (a.w = b.w /\ a.f < b.f)

DLeq(a, b) == ~DLess(b, a)

\* a cost constant: the rational num/den, den a divisor of 800
Ratio(num, den) == [num |-> num, den |-> den]

\* n * c for an integer n (size_t converted to double) and a constant c
Mul(n, c) ==
    LET q == n \div c.den
        x == (n % c.den) * c.num
    IN  Dbl(q * c.num + (x \div c.den), (x % c.den) * (800 \div c.den))

\* d * c for a double d and a constant c
MulD(d, c) ==
    LET whole == Mul(d.w, c)
        x == d.f * c.num
    IN  DAdd(whole, Dbl(0, x \div c.den))

\* static_cast<size_t>(n * pct/100): truncation of the product
Truncate(n, pct) == (n \div 100) * pct + (((n % 100) * pct) \div 100)

RECURSIVE Log2Int(_)
\* floor(log2(n)) for n >= 1
Log2Int(n) == IF n < 2 THEN 0 ELSE 1 + Log2Int(n \div 2)

RECURSIVE Pow2(_)
Pow2(k) == IF k = 0 THEN 1 ELSE 2 * Pow2(k - 1)

RECURSIVE Log2Bits(_, _)
\* the next `bits` binary digits of log2(m / 2^14), for 2^14 <= m < 2^15
Log2Bits(m, bits) ==
    IF bits = 0 THEN 0
    ELSE LET sq == m * m
         IN  IF sq >= Pow2(29)
             THEN Pow2(bits - 1) + Log2Bits(sq \div Pow2(15), bits - 1)
             ELSE Log2Bits(sq \div Pow2(14), bits - 1)

\* std::log2(n) for an integer n >= 1, to 10 fractional bits
Log2(n) ==
    LET k == Log2Int(n)
        m == IF k <= 14 THEN n * Pow2(14 - k) ELSE n \div Pow2(k - 14)
    IN  Dbl(k, (Log2Bits(m, 10) * 800) \div 1024)

\* CostModel::log2_safe
log2_safe(x) == IF x <= 1 THEN DZero ELSE Log2(x)

\* n * d for an integer n and a double d
MulN(n, d) ==
    LET x == n * d.f
    IN  Dbl(n * d.w + (x \div 800), x % 800)

-----------------------------------------------------------------------------
(* ast.h *)

ColumnExpression(table, column) ==
    [type |-> "COLUMN", table_name |-> table, column_name |-> column]

LiteralExpression(val) == [type |-> "LITERAL", value |-> val]

BinaryOpExpression(l, r, operation) ==
    [type |-> "BINARY_OP", left |-> l, right |-> r, op |-> operation]

\* a default-constructed std::unique_ptr<Expression> (no WHERE clause)
NOEXPR == [type |-> "null"]

TableReference(name) == [table_name |-> name, alias |-> S_empty]

JoinClause(jtype, tbl, cond) ==
    [join_type |-> jtype, table |-> tbl, condition |-> cond]

SelectStatement(items, from, join_list, where) ==
    [select_list |-> items, from_table |-> from, joins |-> join_list,
     where_clause |-> where]

-----------------------------------------------------------------------------
(* query_plan.h *)

\* a CostEstimate whose total forgets the CPU part: C9 does not hold of it
CostEstimate_io_only(io, cpu) ==
    [io_cost |-> io, cpu_cost |-> cpu, total_cost |-> io]

CostEstimate(io, cpu) ==
    [io_cost |-> io, cpu_cost |-> cpu, total_cost |-> DAdd(io, cpu)]

\* Statistics(rows, pages, sel): sel in hundredths (100 is 1.0)
Statistics(rows, pages, sel) ==
    [row_count |-> rows, page_count |-> pages, selectivity |-> sel]

Column(table, column) ==
    [table_name |-> table, column_name |-> column, data_type |-> "int"]

NULLPTR == [type |-> "nullptr"]

\* PlanNode(node_type) with every subclass's members at their defaults
PlanNode(node_type) ==
    [type |-> node_type,
     table_name |-> S_empty, alias |-> S_empty,
     condition |-> S_empty,
     projection_list |-> <<>>,
     join_type |-> "INNER", join_condition |-> S_empty,
     output_schema |-> <<>>,
     stats |-> Statistics(0, 0, 100),
     cost |-> CostEstimate(DZero, DZero),
     children |-> <<>>]

TableScanNode(table, table_alias) ==
    [PlanNode("TABLE_SCAN") EXCEPT !.table_name = table, !.alias = table_alias]

FilterNode(filter_condition) ==
    [PlanNode("FILTER") EXCEPT !.condition = filter_condition]

ProjectNode(projections) ==
    [PlanNode("PROJECT") EXCEPT !.projection_list = projections]

JoinNode(node_type, jtype, cond) ==
    [PlanNode(node_type) EXCEPT !.join_type = jtype, !.join_condition = cond]

JoinTypes == {"NESTED_LOOP_JOIN", "HASH_JOIN", "SORT_MERGE_JOIN"}

\* an indent of one space per level: the indentation of C17 does not hold of it
indent_string_single(indent) == [k \in 1..indent |-> " "]

\* PlanNode::indent_string: std::string(indent * 2, ' ')
indent_string(indent) == [k \in 1..(indent * 2) |-> " "]

RECURSIVE join_with_commas(_, _)
\* the loop of ProjectNode::to_string from element k on
join_with_commas(list, k) ==
    IF k > Len(list) THEN <<>>
    ELSE (IF k > 1 THEN <<",", " ">> ELSE <<>>) \o list[k] \o join_with_commas(list, k + 1)

RECURSIVE to_string(_, _)
\* TableScanNode / FilterNode / ProjectNode / NestedLoopJoinNode /
\* HashJoinNode / SortMergeJoinNode ::to_string
to_string(plan, indent) ==
    LET newline == <<"\n">>
        join_type_string ==
            CASE plan.join_type = "INNER" -> <<"I", "N", "N", "E", "R">>
              [] plan.join_type = "LEFT_OUTER" -> <<"L", "E", "F", "T">>
              [] plan.join_type = "RIGHT_OUTER" -> <<"R", "I", "G", "H", "T">>
              [] plan.join_type = "FULL_OUTER" -> <<"F", "U", "L", "L">>
              [] OTHER -> <<"U", "N", "K", "N", "O", "W", "N">>
        join_name ==
            CASE plan.type = "NESTED_LOOP_JOIN" ->
                   <<"N", "e", "s", "t", "e", "d", "L", "o", "o", "p", "J", "o", "i", "n", "(">>
              [] plan.type = "HASH_JOIN" -> <<"H", "a", "s", "h", "J", "o", "i", "n", "(">>
              [] plan.type = "SORT_MERGE_JOIN" ->
                   <<"S", "o", "r", "t", "M", "e", "r", "g", "e", "J", "o", "i", "n", "(">>
        only_child ==
            IF plan.children # <<>> THEN to_string(plan.children[1], indent + 1)
            ELSE <<>>
    IN  CASE plan.type = "TABLE_SCAN" ->
               indent_string(indent) \o <<"T", "a", "b", "l", "e", "S", "c", "a", "n", "(">>
               \o plan.table_name
               \o (IF plan.alias = <<>> THEN <<>>
                   ELSE <<" ", "a", "s", " ">> \o plan.alias)
               \o S_rpar
          [] plan.type = "FILTER" ->
               indent_string(indent) \o <<"F", "i", "l", "t", "e", "r", "(">>
               \o plan.condition \o S_rpar \o newline \o only_child
          [] plan.type = "PROJECT" ->
               indent_string(indent) \o <<"P", "r", "o", "j", "e", "c", "t", "(">>
               \o join_with_commas(plan.projection_list, 1) \o S_rpar \o newline
               \o only_child
          [] plan.type \in JoinTypes ->
               indent_string(indent) \o join_name \o join_type_string
               \o <<",", " ">> \o plan.join_condition \o S_rpar \o newline
               \o (IF Len(plan.children) >= 2
                   THEN to_string(plan.children[1], indent + 1) \o newline
                        \o to_string(plan.children[2], indent + 1)
                   ELSE <<>>)

-----------------------------------------------------------------------------
(* plan_builder.cpp *)

\* PlanBuilder::PlanBuilder
PlanBuilderInit ==
    (S_users :> Statistics(1000, 10, 100)) @@
    (S_orders :> Statistics(5000, 50, 100)) @@
    (S_products :> Statistics(500, 5, 100))

op_str(op) ==
    CASE op = "EQUALS" -> <<"=">>
      [] op = "NOT_EQUALS" -> <<"!", "=">>
      [] op = "GREATER" -> <<">">>
      [] op = "LESS" -> <<"<">>
      [] op = "GREATER_EQUAL" -> <<">", "=">>
      [] op = "LESS_EQUAL" -> <<"<", "=">>
      [] op = "AND" -> <<"A", "N", "D">>
      [] op = "OR" -> <<"O", "R">>

RECURSIVE expression_to_string(_)
expression_to_string(expr) ==
    CASE expr.type = "COLUMN" ->
           IF expr.table_name = S_empty THEN expr.column_name
           ELSE expr.table_name \o S_dot \o expr.column_name
      [] expr.type = "LITERAL" -> expr.value
      [] expr.type = "BINARY_OP" ->
           S_lpar \o expression_to_string(expr.left) \o S_sp \o op_str(expr.op)
                  \o S_sp \o expression_to_string(expr.right) \o S_rpar
      [] OTHER -> <<"U","N","K","N","O","W","N","_","E","X","P","R">>

convert_join_type(jtype) ==
    CASE jtype = "INNER" -> "INNER"
      [] jtype = "LEFT" -> "LEFT_OUTER"
      [] jtype = "RIGHT" -> "RIGHT_OUTER"
      [] OTHER -> "INNER"

build_scan_node(table, ps) ==
    LET scan == TableScanNode(table.table_name, table.alias)
    IN  [scan EXCEPT
           !.stats = IF table.table_name \in DOMAIN ps
                     THEN ps[table.table_name] ELSE scan.stats,
           !.output_schema = <<Column(table.table_name, S_star)>>]

build_filter_node(child, cond) ==
    [FilterNode(expression_to_string(cond)) EXCEPT
       !.stats = [child.stats EXCEPT
                    !.selectivity = 10,
                    !.row_count = Truncate(child.stats.row_count, 10)],
       !.output_schema = child.output_schema,
       !.children = <<child>>]

build_project_node(child, items) ==
    [ProjectNode([k \in DOMAIN items |-> expression_to_string(items[k])]) EXCEPT
       !.stats = child.stats,
       !.output_schema = child.output_schema,
       !.children = <<child>>]

build_join_node(left, right, join, join_algorithm) ==
    LET node_type == IF join_algorithm \in JoinTypes THEN join_algorithm
                     ELSE "NESTED_LOOP_JOIN"
        rows == (left.stats.row_count * right.stats.row_count) \div 10
    IN  [JoinNode(node_type, convert_join_type(join.join_type),
                  expression_to_string(join.condition)) EXCEPT
           !.stats = Statistics(rows, rows \div 100, 10),
           !.output_schema = left.output_schema \o right.output_schema,
           !.children = <<left, right>>]

RECURSIVE fold_joins(_, _, _, _, _)
\* the loop `for (const auto& join : stmt.joins)` from the k-th join on
fold_joins(plan, join_list, k, algorithm, ps) ==
    IF k > Len(join_list) THEN plan
    ELSE fold_joins(build_join_node(plan, build_scan_node(join_list[k].table, ps),
                                    join_list[k], algorithm),
                    join_list, k + 1, algorithm, ps)

\* a plan finished with the filter above the projection: C18 does not hold
\* of it
finish_plan_filter_on_top(plan, s) ==
    IF s.where_clause # NOEXPR
    THEN build_filter_node(build_project_node(plan, s.select_list), s.where_clause)
    ELSE build_project_node(plan, s.select_list)

\* the tail every plan shares: Filter if WHERE is present, then Project
finish_plan(plan, s) ==
    build_project_node(
        IF s.where_clause # NOEXPR THEN build_filter_node(plan, s.where_clause)
        ELSE plan,
        s.select_list)

build_plan(s, ps) ==
    finish_plan(fold_joins(build_scan_node(s.from_table, ps), s.joins, 1,
                           "NESTED_LOOP_JOIN", ps), s)

-----------------------------------------------------------------------------
(* cost_model.h, cost_model.cpp *)

SEQUENTIAL_IO_COST == Ratio(1, 1)
RANDOM_IO_COST == Ratio(4, 1)
CPU_TUPLE_COST == Ratio(1, 100)
CPU_OPERATOR_COST == Ratio(1, 400)
MEMORY_SORT_COST == Ratio(2, 1)
HASH_BUILD_COST == Ratio(1, 1)
HASH_PROBE_COST == Ratio(1, 2)

TableStatistics(tuples, pages, width) ==
    [tuple_count |-> tuples, page_count |-> pages, tuple_width |-> width]

\* CostModel::CostModel followed by QueryOptimizer::QueryOptimizer
QueryOptimizerInit ==
    (S_users :> TableStatistics(1000, 10, 120)) @@
    (S_orders :> TableStatistics(5000, 50, 80))

Max(a, b) == IF a >= b THEN a ELSE b
Min(a, b) == IF a <= b THEN a ELSE b

estimate_nested_loop_cost(left_tuples, right_tuples, right_pages) ==
    LET io_cost == Mul(left_tuples * right_pages, RANDOM_IO_COST)
        cpu_cost == Mul(left_tuples * right_tuples, CPU_OPERATOR_COST)
    IN  DAdd(io_cost, cpu_cost)

\* a hash join that probes every build tuple for every probe tuple: the
\* ordering of C8 does not hold of it
estimate_hash_join_cost_quadratic(build_tuples, probe_tuples, build_pages) ==
    DAdd(Mul(build_tuples * probe_tuples, HASH_PROBE_COST),
         Mul(build_pages, SEQUENTIAL_IO_COST))

estimate_hash_join_cost(build_tuples, probe_tuples, build_pages) ==
    LET build_cost == Mul(build_tuples, HASH_BUILD_COST)
        probe_cost == Mul(probe_tuples, HASH_PROBE_COST)
        io_cost == Mul(build_pages, SEQUENTIAL_IO_COST)
    IN  DAdd(DAdd(build_cost, probe_cost), io_cost)

\* a sort charged without the per-operator CPU factor: the ordering of C7
\* does not hold of it
estimate_sort_cost_unscaled(tuple_count) ==
    IF tuple_count <= 1 THEN DZero
    ELSE MulD(MulN(tuple_count, log2_safe(tuple_count)), MEMORY_SORT_COST)

estimate_sort_cost(tuple_count) ==
    IF tuple_count <= 1 THEN DZero
    ELSE MulD(MulD(MulN(tuple_count, log2_safe(tuple_count)), CPU_OPERATOR_COST),
              MEMORY_SORT_COST)

estimate_sort_merge_cost(left_tuples, right_tuples) ==
    LET left_sort == estimate_sort_cost(left_tuples)
        right_sort == estimate_sort_cost(right_tuples)
        merge_cost == Mul(left_tuples + right_tuples, CPU_OPERATOR_COST)
    IN  DAdd(DAdd(left_sort, right_sort), merge_cost)

\* a scan cost with pages and tuples exchanged: C10 does not hold of it
estimate_table_scan_cost_swapped(node, ts) ==
    IF node.table_name \notin DOMAIN ts
    THEN CostEstimate(Dbl(10, 0), Dbl(1, 0))
    ELSE CostEstimate(Mul(ts[node.table_name].tuple_count, SEQUENTIAL_IO_COST),
                      Mul(ts[node.table_name].page_count, CPU_TUPLE_COST))

estimate_table_scan_cost(node, ts) ==
    IF node.table_name \notin DOMAIN ts
    THEN CostEstimate(Dbl(10, 0), Dbl(1, 0))
    ELSE CostEstimate(Mul(ts[node.table_name].page_count, SEQUENTIAL_IO_COST),
                      Mul(ts[node.table_name].tuple_count, CPU_TUPLE_COST))

\* in hundredths
estimate_join_selectivity(cond) ==
    IF Find(cond, S_eq) # NPOS THEN 10
    ELSE IF Find(cond, S_gt) # NPOS \/ Find(cond, S_lt) # NPOS THEN 33
    ELSE 10

RECURSIVE estimate_output_cardinality(_, _)
estimate_output_cardinality(node, ts) ==
    CASE node.type = "TABLE_SCAN" ->
           IF node.table_name \in DOMAIN ts
           THEN ts[node.table_name].tuple_count ELSE 1000
      [] node.type = "FILTER" ->
           IF node.children = <<>> THEN 0
           ELSE LET input_cardinality ==
                        estimate_output_cardinality(node.children[1], ts)
                    selectivity ==
                        IF Find(node.condition, S_age_gt_25) # NPOS THEN 88
                        ELSE IF Find(node.condition, S_age_lt_30) # NPOS THEN 20
                        ELSE 10
                IN  Truncate(input_cardinality, selectivity)
      [] node.type = "PROJECT" ->
           IF node.children = <<>> THEN 0
           ELSE estimate_output_cardinality(node.children[1], ts)
      [] node.type \in JoinTypes ->
           IF Len(node.children) < 2 THEN 0
           ELSE Truncate(estimate_output_cardinality(node.children[1], ts)
                           * estimate_output_cardinality(node.children[2], ts),
                         estimate_join_selectivity(node.join_condition))
      [] OTHER -> 1000

RECURSIVE estimate_plan_cost(_, _)

estimate_filter_cost(node, ts) ==
    IF node.children = <<>> THEN CostEstimate(DZero, DZero)
    ELSE LET child_cost == estimate_plan_cost(node.children[1], ts)
             input_tuples == estimate_output_cardinality(node.children[1], ts)
             filter_cpu_cost == Mul(input_tuples, CPU_OPERATOR_COST)
         IN  CostEstimate(child_cost.io_cost,
                          DAdd(child_cost.cpu_cost, filter_cpu_cost))

estimate_project_cost(node, ts) ==
    IF node.children = <<>> THEN CostEstimate(DZero, DZero)
    ELSE LET child_cost == estimate_plan_cost(node.children[1], ts)
             input_tuples == estimate_output_cardinality(node.children[1], ts)
             project_cpu_cost ==
                 MulD(Mul(input_tuples, CPU_OPERATOR_COST), Ratio(1, 2))
         IN  CostEstimate(child_cost.io_cost,
                          DAdd(child_cost.cpu_cost, project_cpu_cost))

estimate_join_cost(node, ts) ==
    IF Len(node.children) < 2 THEN CostEstimate(DZero, DZero)
    ELSE
    LET left_cost == estimate_plan_cost(node.children[1], ts)
        right_cost == estimate_plan_cost(node.children[2], ts)
        left_tuples == estimate_output_cardinality(node.children[1], ts)
        right_tuples == estimate_output_cardinality(node.children[2], ts)
        total_io == DAdd(left_cost.io_cost, right_cost.io_cost)
        total_cpu == DAdd(left_cost.cpu_cost, right_cost.cpu_cost)
    IN  CASE node.type = "NESTED_LOOP_JOIN" ->
               LET right_pages == Max(1, right_tuples \div 100)
                   join_cost == estimate_nested_loop_cost(left_tuples, right_tuples,
                                                          right_pages)
               IN  CostEstimate(
                       DAdd(total_io, Mul(left_tuples * right_pages, RANDOM_IO_COST)),
                       DAdd(total_cpu, join_cost))
          [] node.type = "HASH_JOIN" ->
               LET build_tuples == Min(left_tuples, right_tuples)
                   probe_tuples == Max(left_tuples, right_tuples)
                   build_pages == Max(1, build_tuples \div 100)
                   join_cost == estimate_hash_join_cost(build_tuples, probe_tuples,
                                                        build_pages)
               IN  CostEstimate(total_io, DAdd(total_cpu, join_cost))
          [] node.type = "SORT_MERGE_JOIN" ->
               CostEstimate(total_io,
                            DAdd(total_cpu,
                                 estimate_sort_merge_cost(left_tuples, right_tuples)))
          [] OTHER -> CostEstimate(total_io, total_cpu)

estimate_plan_cost(node, ts) ==
    CASE node.type = "TABLE_SCAN" -> estimate_table_scan_cost(node, ts)
      [] node.type = "FILTER" -> estimate_filter_cost(node, ts)
      [] node.type = "PROJECT" -> estimate_project_cost(node, ts)
      [] node.type \in JoinTypes -> estimate_join_cost(node, ts)
      [] OTHER -> CostEstimate(DZero, DZero)

-----------------------------------------------------------------------------
(* optimizer.cpp *)

PlanCandidate(p, c) == [plan |-> p, cost |-> c]

\* plan->cost = cost_model.estimate_plan_cost(*plan)
annotate(plan, ts) == [plan EXCEPT !.cost = estimate_plan_cost(plan, ts)]

apply_filter_pushdown(plan) == plan

optimize_single_table(s, ts, ps) ==
    annotate(apply_filter_pushdown(build_plan(s, ps)), ts)

join_algorithms == <<"NESTED_LOOP_JOIN", "HASH_JOIN", "SORT_MERGE_JOIN">>

\* one pass of the first loop of generate_all_plans
left_deep_candidate(s, algorithm, ts, ps) ==
    LET plan == annotate(
                    finish_plan(fold_joins(build_scan_node(s.from_table, ps),
                                           s.joins, 1, algorithm, ps), s), ts)
    IN  PlanCandidate(plan, plan.cost)

\* one pass of the second loop of generate_all_plans (joins.size() == 1)
reversed_candidate(s, algorithm, ts, ps) ==
    LET right_first == build_scan_node(s.joins[1].table, ps)
        left_second == build_scan_node(s.from_table, ps)
        plan == annotate(
                    finish_plan(build_join_node(right_first, left_second,
                                                s.joins[1], algorithm), s), ts)
    IN  PlanCandidate(plan, plan.cost)

generate_all_plans(s, ts, ps) ==
    [k \in 1..3 |-> left_deep_candidate(s, join_algorithms[k], ts, ps)]
    \o (IF Len(s.joins) = 1
        THEN [k \in 1..3 |-> reversed_candidate(s, join_algorithms[k], ts, ps)]
        ELSE <<>>)

\* std::max_element in place of std::min_element: C1 does not hold of it
max_element(cands) ==
    CHOOSE k \in DOMAIN cands :
        /\ \A j \in DOMAIN cands :
             ~DLess(cands[k].cost.total_cost, cands[j].cost.total_cost)
        /\ \A j \in 1..(k - 1) :
             DLess(cands[j].cost.total_cost, cands[k].cost.total_cost)

\* a minimum search that keeps the last of several equal minima: the tie
\* rule of C12 does not hold of it
min_element_last(cands) ==
    CHOOSE k \in DOMAIN cands :
        /\ \A j \in DOMAIN cands :
             ~DLess(cands[j].cost.total_cost, cands[k].cost.total_cost)
        /\ \A j \in (k + 1)..Len(cands) :
             DLess(cands[k].cost.total_cost, cands[j].cost.total_cost)

\* std::min_element over total_cost: the first candidate no other is below
min_element(cands) ==
    CHOOSE k \in DOMAIN cands :
        /\ \A j \in DOMAIN cands :
             ~DLess(cands[j].cost.total_cost, cands[k].cost.total_cost)
        /\ \A j \in 1..(k - 1) :
             DLess(cands[k].cost.total_cost, cands[j].cost.total_cost)

\* the pointer select_best_plan returns
select_best_plan(cands) ==
    IF cands = <<>> THEN NULLPTR ELSE cands[min_element(cands)].plan

\* a select_best_plan that hands out a copy and leaves the list as it was:
\* C28 does not hold of it
after_select_copying(cands) == cands

\* the candidate list after select_best_plan moved the winner out of it
after_select(cands) ==
    IF cands = <<>> THEN cands
    ELSE [cands EXCEPT ![min_element(cands)].plan = NULLPTR]

optimize_join_query(s, ts, ps) ==
    LET cands == generate_all_plans(s, ts, ps)
    IN  IF cands = <<>> THEN NULLPTR ELSE select_best_plan(cands)

optimize(s, ts, ps) ==
    IF s.joins = <<>> THEN optimize_single_table(s, ts, ps)
    ELSE optimize_join_query(s, ts, ps)

-----------------------------------------------------------------------------
(* table.h *)

\* std::any holding an int / a std::string
IntVal(n) == [t |-> "int", i |-> n, s |-> ""]
StrVal(str) == [t |-> "string", i |-> 0, s |-> str]

\* Row::get<int>(index) returns (does not throw)
CanGetInt(row, index) == index < Len(row) /\ row[index + 1].t = "int"
GetInt(row, index) == row[index + 1].i

TableSchema(names, types) == [column_names |-> names, column_types |-> types]

\* TableSchema::get_column_index: the first match, NPOS when it throws
get_column_index(schema, name) ==
    LET hits == { k \in DOMAIN schema.column_names : schema.column_names[k] = name }
    IN  IF hits = {} THEN NPOS
        ELSE (CHOOSE k \in hits : \A j \in hits : k <= j) - 1

users_schema ==
    TableSchema(<<S_id, S_name, S_age, S_city>>, <<"int", "string", "int", "string">>)

orders_schema ==
    TableSchema(<<S_id, S_user_id, S_product, S_amount>>,
                <<"int", "int", "string", "int">>)

\* the program loads SAMPLE_USERS users and SAMPLE_ORDERS orders
SAMPLE_USERS == 1000
SAMPLE_ORDERS == 5000

\* TableManager::populate_sample_data with its two loop limits as parameters;
\* nu also stands for the modulus of user_id, which the code writes as the
\* same number as the users' loop limit
populate_sample_data(nu, no) ==
    (S_users :>
       [schema |-> users_schema,
        rows |-> [i \in 1..nu |->
                    <<IntVal(i), StrVal("User" \o ToString(i)),
                      IntVal(20 + (i % 50)),
                      StrVal("City" \o ToString((i % 10) + 1))>>]]) @@
    (S_orders :>
       [schema |-> orders_schema,
        rows |-> [i \in 1..no |->
                    <<IntVal(i), IntVal((i % nu) + 1),
                      StrVal("Product" \o ToString((i % 100) + 1)),
                      IntVal(10 + (i % 500))>>]])

-----------------------------------------------------------------------------
(* executor.h, executor.cpp *)

\* what Executor::execute hands back: a ResultSet, or the exception it threw
ResultSet(result_schema, result_rows) ==
    [ok |-> TRUE, schema |-> result_schema, rows |-> result_rows, error |-> ""]

Throw(what) ==
    [ok |-> FALSE, schema |-> TableSchema(<<>>, <<>>), rows |-> <<>>, error |-> what]

NORESULT == [ok |-> FALSE, schema |-> TableSchema(<<>>, <<>>), rows |-> <<>>,
             error |-> "not executed"]

DigitValue ==
    ("0" :> 0) @@ ("1" :> 1) @@ ("2" :> 2) @@ ("3" :> 3) @@ ("4" :> 4) @@
    ("5" :> 5) @@ ("6" :> 6) @@ ("7" :> 7) @@ ("8" :> 8) @@ ("9" :> 9)

RECURSIVE SkipSpaces(_, _)
SkipSpaces(str, k) ==
    IF k <= Len(str) /\ str[k] = " " THEN SkipSpaces(str, k + 1) ELSE k

RECURSIVE ParseDigits(_, _, _, _)
\* [ok, val, n]: the value of the n leading digits from position k on;
\* more than 9 digits is out_of_range
ParseDigits(str, k, acc, n) ==
    IF k <= Len(str) /\ str[k] \in DOMAIN DigitValue
    THEN IF n >= 9 THEN [ok |-> FALSE, val |-> 0, n |-> n]
         ELSE ParseDigits(str, k + 1, 10 * acc + DigitValue[str[k]], n + 1)
    ELSE [ok |-> n > 0, val |-> acc, n |-> n]

\* std::stoi: [ok, val]; ok is FALSE when it throws
stoi(str) ==
    LET k == SkipSpaces(str, 1)
        neg == k <= Len(str) /\ str[k] = "-"
        signed == k <= Len(str) /\ str[k] \in {"-", "+"}
        d == ParseDigits(str, IF signed THEN k + 1 ELSE k, 0, 0)
    IN  [ok |-> d.ok, val |-> IF neg THEN 0 - d.val ELSE d.val]

\* a filter that keeps the rows whose age cannot be looked up or read: C19
\* does not hold of it
evaluate_condition_keeping_failures(row, schema, cond) ==
    IF Find(cond, S_age_gt_25) # NPOS
    THEN LET age_idx == get_column_index(schema, S_age)
         IN  (age_idx # NPOS /\ CanGetInt(row, age_idx)) => GetInt(row, age_idx) > 25
    ELSE IF Find(cond, S_age_lt_30) # NPOS
    THEN LET age_idx == get_column_index(schema, S_age)
         IN  (age_idx # NPOS /\ CanGetInt(row, age_idx)) => GetInt(row, age_idx) < 30
    ELSE IF Find(cond, S_id_eq) # NPOS
    THEN LET id_str == Substr(cond, Find(cond, S_eq_sp) + 2)
             id_idx == get_column_index(schema, S_id)
             target_id == stoi(id_str)
         IN  (id_idx # NPOS /\ CanGetInt(row, id_idx) /\ target_id.ok)
                 => GetInt(row, id_idx) = target_id.val
    ELSE TRUE

\* a recognizer that tries "age < 30" before "age > 25": C29 does not hold
\* of it
evaluate_condition_lt_first(row, schema, cond) ==
    IF Find(cond, S_age_lt_30) # NPOS
    THEN LET age_idx == get_column_index(schema, S_age)
         IN  age_idx # NPOS /\ CanGetInt(row, age_idx) /\ GetInt(row, age_idx) < 30
    ELSE IF Find(cond, S_age_gt_25) # NPOS
    THEN LET age_idx == get_column_index(schema, S_age)
         IN  age_idx # NPOS /\ CanGetInt(row, age_idx) /\ GetInt(row, age_idx) > 25
    ELSE IF Find(cond, S_id_eq) # NPOS
    THEN LET id_str == Substr(cond, Find(cond, S_eq_sp) + 2)
             id_idx == get_column_index(schema, S_id)
             target_id == stoi(id_str)
         IN  id_idx # NPOS /\ CanGetInt(row, id_idx) /\ target_id.ok
             /\ GetInt(row, id_idx) = target_id.val
    ELSE TRUE

\* a filter that reads "age > 25" as age >= 25: C6 does not hold of it
evaluate_condition_inclusive(row, schema, cond) ==
    IF Find(cond, S_age_gt_25) # NPOS
    THEN LET age_idx == get_column_index(schema, S_age)
         IN  age_idx # NPOS /\ CanGetInt(row, age_idx) /\ GetInt(row, age_idx) >= 25
    ELSE TRUE

evaluate_condition(row, schema, cond) ==
    IF Find(cond, S_age_gt_25) # NPOS
    THEN LET age_idx == get_column_index(schema, S_age)
         IN  age_idx # NPOS /\ CanGetInt(row, age_idx) /\ GetInt(row, age_idx) > 25
    ELSE IF Find(cond, S_age_lt_30) # NPOS
    THEN LET age_idx == get_column_index(schema, S_age)
         IN  age_idx # NPOS /\ CanGetInt(row, age_idx) /\ GetInt(row, age_idx) < 30
    ELSE IF Find(cond, S_id_eq) # NPOS
    THEN LET id_str == Substr(cond, Find(cond, S_eq_sp) + 2)
             id_idx == get_column_index(schema, S_id)
             target_id == stoi(id_str)
         IN  id_idx # NPOS /\ CanGetInt(row, id_idx) /\ target_id.ok
             /\ GetInt(row, id_idx) = target_id.val
    ELSE TRUE

\* one projection text of parse_projections: the part after the first '.'
strip_table(proj) ==
    IF Find(proj, S_dot) # NPOS THEN Substr(proj, Find(proj, S_dot) + 1) ELSE proj

parse_projections(projections) ==
    LET kept == SelectSeq(projections, LAMBDA proj : proj # S_star)
    IN  [k \in DOMAIN kept |-> strip_table(kept[k])]

RECURSIVE Flatten(_, _)
\* seqs[k] \o seqs[k+1] \o ...
Flatten(seqs, k) == IF k > Len(seqs) THEN <<>> ELSE seqs[k] \o Flatten(seqs, k + 1)

\* a join schema with the right child's columns first: C16 does not hold of it
joined_schema_right_first(left, right) ==
    TableSchema(right.schema.column_names \o left.schema.column_names,
                right.schema.column_types \o left.schema.column_types)

\* left schema followed by the right schema's columns
joined_schema(left, right) ==
    TableSchema(left.schema.column_names \o right.schema.column_names,
                left.schema.column_types \o right.schema.column_types)

\* the comparator the sort-merge join hands to std::sort
sort_less(a, b, col) ==
    CanGetInt(a, col) /\ CanGetInt(b, col) /\ GetInt(a, col) < GetInt(b, col)

\* sort_less is a strict weak ordering on rows: no row that fails the key
\* read sits between rows of different keys
is_strict_weak(rows, col) ==
    \/ \A k \in DOMAIN rows : CanGetInt(rows[k], col)
    \/ \A j, k \in DOMAIN rows :
         (CanGetInt(rows[j], col) /\ CanGetInt(rows[k], col))
            => GetInt(rows[j], col) = GetInt(rows[k], col)

RECURSIVE sort_orders(_, _, _, _)
\* the orders of the positions S that std::sort may leave: each one lists
\* a position only after every position that must precede it
sort_orders(S, rows, col, ordered) ==
    IF S = {} THEN {<<>>}
    ELSE LET firsts == IF ordered
                       THEN { k \in S : \A j \in S : ~sort_less(rows[j], rows[k], col) }
                       ELSE S
         IN  UNION { { <<k>> \o rest :
                         rest \in sort_orders(S \ {k}, rows, col, ordered) } :
                     k \in firsts }

\* a sort that leaves the rows as they are: C26 does not hold of it
std_sort_unsorted(rows, col) == {rows}

\* std::sort(rows, by int at col): every result the call may produce.  Rows of
\* equal key come out in an unspecified order; with a comparator that is no
\* strict weak ordering the behaviour is undefined and any order is possible.
std_sort(rows, col) ==
    { [k \in DOMAIN rows |-> rows[order[k]]] :
        order \in sort_orders(DOMAIN rows, rows, col, is_strict_weak(rows, col)) }

RECURSIVE merge_loop_both(_, _, _, _, _)
\* a merge that advances both cursors on a match: C5 does not hold of it
merge_loop_both(left_rows, right_rows, left_idx, right_idx, out) ==
    IF ~(left_idx < Len(left_rows) /\ right_idx < Len(right_rows)) THEN out
    ELSE LET l == left_rows[left_idx + 1]
             r == right_rows[right_idx + 1]
         IN  IF ~(CanGetInt(l, 0) /\ CanGetInt(r, 1))
             THEN merge_loop_both(left_rows, right_rows, left_idx + 1, right_idx, out)
             ELSE IF GetInt(l, 0) = GetInt(r, 1)
             THEN merge_loop_both(left_rows, right_rows, left_idx + 1, right_idx + 1,
                                  Append(out, l \o r))
             ELSE IF GetInt(l, 0) < GetInt(r, 1)
             THEN merge_loop_both(left_rows, right_rows, left_idx + 1, right_idx, out)
             ELSE merge_loop_both(left_rows, right_rows, left_idx, right_idx + 1, out)

\* a loop body that advances both cursors on a match: C30 does not hold
\* of it
merge_step_both(left_rows, right_rows, left_idx, right_idx) ==
    LET l == left_rows[left_idx + 1]
        r == right_rows[right_idx + 1]
    IN  IF ~(CanGetInt(l, 0) /\ CanGetInt(r, 1))
        THEN [left_idx |-> left_idx + 1, right_idx |-> right_idx, emitted |-> <<>>]
        ELSE IF GetInt(l, 0) = GetInt(r, 1)
        THEN [left_idx |-> left_idx + 1, right_idx |-> right_idx + 1,
              emitted |-> <<l \o r>>]
        ELSE IF GetInt(l, 0) < GetInt(r, 1)
        THEN [left_idx |-> left_idx + 1, right_idx |-> right_idx, emitted |-> <<>>]
        ELSE [left_idx |-> left_idx, right_idx |-> right_idx + 1, emitted |-> <<>>]

\* one iteration of the while loop of execute_sort_merge_join with both
\* cursors inside their lists: the cursors it leaves and the rows it adds
merge_step(left_rows, right_rows, left_idx, right_idx) ==
    LET l == left_rows[left_idx + 1]
        r == right_rows[right_idx + 1]
    IN  IF ~(CanGetInt(l, 0) /\ CanGetInt(r, 1))
        THEN [left_idx |-> left_idx + 1, right_idx |-> right_idx, emitted |-> <<>>]
        ELSE IF GetInt(l, 0) = GetInt(r, 1)
        THEN [left_idx |-> left_idx, right_idx |-> right_idx + 1,
              emitted |-> <<l \o r>>]
        ELSE IF GetInt(l, 0) < GetInt(r, 1)
        THEN [left_idx |-> left_idx + 1, right_idx |-> right_idx, emitted |-> <<>>]
        ELSE [left_idx |-> left_idx, right_idx |-> right_idx + 1, emitted |-> <<>>]

RECURSIVE merge_loop(_, _, _, _, _)
\* the while loop of execute_sort_merge_join from cursors (left_idx, right_idx)
merge_loop(left_rows, right_rows, left_idx, right_idx, out) ==
    IF ~(left_idx < Len(left_rows) /\ right_idx < Len(right_rows)) THEN out
    ELSE LET l == left_rows[left_idx + 1]
             r == right_rows[right_idx + 1]
         IN  IF ~(CanGetInt(l, 0) /\ CanGetInt(r, 1))
             THEN merge_loop(left_rows, right_rows, left_idx + 1, right_idx, out)
             ELSE IF GetInt(l, 0) = GetInt(r, 1)
             THEN merge_loop(left_rows, right_rows, left_idx, right_idx + 1,
                             Append(out, l \o r))
             ELSE IF GetInt(l, 0) < GetInt(r, 1)
             THEN merge_loop(left_rows, right_rows, left_idx + 1, right_idx, out)
             ELSE merge_loop(left_rows, right_rows, left_idx, right_idx + 1, out)

\* a nested loop that emits a pair only when left column 0 equals right
\* column 1: C27 does not hold of it
nested_loop_rows_matching(left_rows, right_rows) ==
    LET m == Len(right_rows)
        pairs == [k \in 1..(Len(left_rows) * m) |->
                    <<left_rows[((k - 1) \div m) + 1], right_rows[((k - 1) % m) + 1]>>]
        matching == SelectSeq(pairs,
                              LAMBDA pair : /\ CanGetInt(pair[1], 0)
                                            /\ CanGetInt(pair[2], 1)
                                            /\ GetInt(pair[1], 0) = GetInt(pair[2], 1))
    IN  [k \in DOMAIN matching |-> matching[k][1] \o matching[k][2]]

nested_loop_rows(left_rows, right_rows) ==
    LET m == Len(right_rows)
    IN  [k \in 1..(Len(left_rows) * m) |->
           left_rows[((k - 1) \div m) + 1] \o right_rows[((k - 1) % m) + 1]]

\* a hash join that emits in build order, each left row with its matching
\* right rows: C25 does not hold of it
hash_join_rows_left_major(left_rows, right_rows) ==
    LET matches(left_row) ==
            IF CanGetInt(left_row, 0)
            THEN LET found == SelectSeq(right_rows,
                                 LAMBDA r : CanGetInt(r, 1)
                                            /\ GetInt(r, 1) = GetInt(left_row, 0))
                 IN  [k \in DOMAIN found |-> left_row \o found[k]]
            ELSE <<>>
    IN  Flatten([k \in DOMAIN left_rows |-> matches(left_rows[k])], 1)

hash_join_rows(left_rows, right_rows) ==
    LET keys == { GetInt(left_rows[k], 0) :
                    k \in { j \in DOMAIN left_rows : CanGetInt(left_rows[j], 0) } }
        hash_table == [key \in keys |->
                         SelectSeq(left_rows,
                                   LAMBDA row : CanGetInt(row, 0) /\ GetInt(row, 0) = key)]
        probe(right_row) ==
            IF CanGetInt(right_row, 1) /\ GetInt(right_row, 1) \in keys
            THEN LET bucket == hash_table[GetInt(right_row, 1)]
                 IN  [k \in DOMAIN bucket |-> bucket[k] \o right_row]
            ELSE <<>>
    IN  Flatten([k \in DOMAIN right_rows |-> probe(right_rows[k])], 1)

RECURSIVE execute(_, _)

\* a scan that answers a missing table with an empty ResultSet: C21 does not
\* hold of it
execute_table_scan_or_empty(node, tbls) ==
    IF node.table_name \notin DOMAIN tbls
    THEN {ResultSet(TableSchema(<<>>, <<>>), <<>>)}
    ELSE {ResultSet(tbls[node.table_name].schema, tbls[node.table_name].rows)}

execute_table_scan(node, tbls) ==
    IF node.table_name \notin DOMAIN tbls
    THEN {Throw("Table not found")}
    ELSE {ResultSet(tbls[node.table_name].schema, tbls[node.table_name].rows)}

\* a filter that also loses the first row it kept: C14 does not hold of it
execute_filter_losing_first(node, tbls) ==
    IF node.children = <<>> THEN {Throw("Filter node has no children")}
    ELSE { IF ~child_result.ok THEN child_result
           ELSE LET kept == SelectSeq(child_result.rows,
                                      LAMBDA row : evaluate_condition(
                                          row, child_result.schema, node.condition))
                IN  ResultSet(child_result.schema,
                              IF kept = <<>> THEN kept ELSE Tail(kept)) :
           child_result \in execute(node.children[1], tbls) }

execute_filter(node, tbls) ==
    IF node.children = <<>> THEN {Throw("Filter node has no children")}
    ELSE { IF ~child_result.ok THEN child_result
           ELSE ResultSet(child_result.schema,
                          SelectSeq(child_result.rows,
                                    LAMBDA row : evaluate_condition(
                                        row, child_result.schema, node.condition))) :
           child_result \in execute(node.children[1], tbls) }

\* a projection without the pass-through of [*]: the "*" is skipped like in
\* any other list and no column is left; C15 does not hold of it
project_result_without_star(node, child_result) ==
    LET columns == parse_projections(node.projection_list)
        found == SelectSeq(columns,
                    LAMBDA col : get_column_index(child_result.schema, col) # NPOS)
        column_indices ==
            [k \in DOMAIN found |-> get_column_index(child_result.schema, found[k])]
        new_row(row) ==
            LET inside == SelectSeq(column_indices, LAMBDA idx : idx < Len(row))
            IN  [k \in DOMAIN inside |-> row[inside[k] + 1]]
    IN  ResultSet(TableSchema(found,
                              [k \in DOMAIN found |->
                                 child_result.schema.column_types[column_indices[k] + 1]]),
                  [k \in DOMAIN child_result.rows |-> new_row(child_result.rows[k])])

project_result(node, child_result) ==
    IF Len(node.projection_list) = 1 /\ node.projection_list[1] = S_star
    THEN child_result
    ELSE LET columns == parse_projections(node.projection_list)
             found == SelectSeq(columns,
                         LAMBDA col : get_column_index(child_result.schema, col) # NPOS)
             column_indices ==
                 [k \in DOMAIN found |-> get_column_index(child_result.schema, found[k])]
             result_schema ==
                 TableSchema(found,
                             [k \in DOMAIN found |->
                                child_result.schema.column_types[column_indices[k] + 1]])
             new_row(row) ==
                 LET inside == SelectSeq(column_indices, LAMBDA idx : idx < Len(row))
                 IN  [k \in DOMAIN inside |-> row[inside[k] + 1]]
         IN  ResultSet(result_schema,
                       [k \in DOMAIN child_result.rows |-> new_row(child_result.rows[k])])

execute_project(node, tbls) ==
    IF node.children = <<>> THEN {Throw("Project node has no children")}
    ELSE { IF ~child_result.ok THEN child_result
           ELSE project_result(node, child_result) :
           child_result \in execute(node.children[1], tbls) }

nested_loop_outcomes(left_rows, right_rows) ==
    {nested_loop_rows(left_rows, right_rows)}

hash_join_outcomes(left_rows, right_rows) ==
    {hash_join_rows(left_rows, right_rows)}

sort_merge_outcomes(left_rows, right_rows) ==
    { merge_loop(sorted_left, sorted_right, 0, 0, <<>>) :
        sorted_left \in std_sort(left_rows, 0),
        sorted_right \in std_sort(right_rows, 1) }

\* the row lists the join body of the given function may build
join_rows(algorithm, left_rows, right_rows) ==
    CASE algorithm = "NESTED_LOOP_JOIN" -> nested_loop_outcomes(left_rows, right_rows)
      [] algorithm = "HASH_JOIN" -> hash_join_outcomes(left_rows, right_rows)
      [] algorithm = "SORT_MERGE_JOIN" -> sort_merge_outcomes(left_rows, right_rows)

\* a join that honours LEFT_OUTER: it also emits the left rows, without a
\* right part; C23 does not hold of it
join_of_left_outer(node, tbls, algorithm) ==
    IF Len(node.children) < 2 THEN {Throw("Join node needs two children")}
    ELSE UNION {
           IF ~left_result.ok THEN {left_result}
           ELSE UNION {
                  IF ~right_result.ok THEN {right_result}
                  ELSE { ResultSet(joined_schema(left_result, right_result),
                                   IF node.join_type = "LEFT_OUTER"
                                   THEN rows \o left_result.rows ELSE rows) :
                         rows \in join_rows(algorithm, left_result.rows,
                                            right_result.rows) } :
                  right_result \in execute(node.children[2], tbls) } :
           left_result \in execute(node.children[1], tbls) }

\* the frame the three join functions share: run the left child, then the
\* right child (a child that throws ends the join with that exception), then
\* join their rows under the concatenated schema
join_of(node, tbls, algorithm) ==
    IF Len(node.children) < 2 THEN {Throw("Join node needs two children")}
    ELSE UNION {
           IF ~left_result.ok THEN {left_result}
           ELSE UNION {
                  IF ~right_result.ok THEN {right_result}
                  ELSE { ResultSet(joined_schema(left_result, right_result), rows) :
                         rows \in join_rows(algorithm, left_result.rows,
                                            right_result.rows) } :
                  right_result \in execute(node.children[2], tbls) } :
           left_result \in execute(node.children[1], tbls) }

execute_nested_loop_join(node, tbls) == join_of(node, tbls, "NESTED_LOOP_JOIN")

execute_hash_join(node, tbls) == join_of(node, tbls, "HASH_JOIN")

execute_sort_merge_join(node, tbls) == join_of(node, tbls, "SORT_MERGE_JOIN")

\* Executor::execute: the set of results the call may produce
execute(node, tbls) ==
    CASE node.type = "TABLE_SCAN" -> execute_table_scan(node, tbls)
      [] node.type = "FILTER" -> execute_filter(node, tbls)
      [] node.type = "PROJECT" -> execute_project(node, tbls)
      [] node.type = "NESTED_LOOP_JOIN" -> execute_nested_loop_join(node, tbls)
      [] node.type = "HASH_JOIN" -> execute_hash_join(node, tbls)
      [] node.type = "SORT_MERGE_JOIN" -> execute_sort_merge_join(node, tbls)
      [] OTHER -> {Throw("Unsupported plan node type")}

-----------------------------------------------------------------------------
(* Inputs of the drivers *)

NOSTMT == [select_list |-> <<>>, from_table |-> TableReference(S_empty),
           joins |-> <<>>, where_clause |-> NOEXPR, none |-> TRUE]

select_all == <<ColumnExpression(S_empty, S_star)>>
select_name_age == <<ColumnExpression(S_empty, S_name), ColumnExpression(S_empty, S_age)>>

where_age_gt_25 ==
    BinaryOpExpression(ColumnExpression(S_empty, S_age), LiteralExpression(S_25),
                       "GREATER")
where_age_lt_30 ==
    BinaryOpExpression(ColumnExpression(S_empty, S_age), LiteralExpression(S_30), "LESS")
on_users_orders ==
    BinaryOpExpression(ColumnExpression(S_users, S_id),
                       ColumnExpression(S_orders, S_user_id), "EQUALS")
join_orders == JoinClause("INNER", TableReference(S_orders), on_users_orders)
join_users == JoinClause("LEFT", TableReference(S_users), on_users_orders)
join_orders_gt ==
    JoinClause("INNER", TableReference(S_orders),
               BinaryOpExpression(ColumnExpression(S_users, S_id),
                                  ColumnExpression(S_orders, S_user_id), "GREATER"))
join_products == JoinClause("INNER", TableReference(S_products), on_users_orders)

FromTables == {TableReference(S_users), TableReference(S_orders)}

\* statements the execution driver issues (Spec)
Statements ==
    { SelectStatement(items, from, join_list, where) :
        items \in {select_all, select_name_age},
        from \in FromTables,
        join_list \in {<<>>, <<join_orders>>, <<join_users>>},
        where \in {NOEXPR, where_age_lt_30} }
    \cup
    { SelectStatement(items, TableReference(S_users), <<join_orders, join_users>>,
                      NOEXPR) : items \in {select_all, select_name_age} }

\* statements the costing driver issues (SpecCost)
CostStatements ==
    { SelectStatement(select_all, from, join_list, where) :
        from \in FromTables,
        join_list \in {<<>>, <<join_orders>>, <<join_users>>, <<join_orders_gt>>},
        where \in {NOEXPR, where_age_gt_25} }
    \cup
    { SelectStatement(select_all, TableReference(S_users),
                      <<join_orders, join_products>>, where) :
        where \in {NOEXPR, where_age_gt_25} }

scan_of(table) == TableScanNode(table, S_empty)

\* test_executor.cpp: Project([name, age], Filter("age > 25", TableScan(users)))
test_plan ==
    [ProjectNode(<<S_name, S_age>>) EXCEPT
       !.stats = Statistics(100, 1, 100),
       !.children =
          <<[FilterNode(S_age_gt_25) EXCEPT
               !.stats = Statistics(100, 1, 10),
               !.children = <<[scan_of(S_users) EXCEPT
                                 !.stats = Statistics(1000, 10, 100)]>>]>>]

\* test_executor.cpp, benchmark.cpp: a join node over two scans, built by hand
manual_join(algorithm, left, right) ==
    [JoinNode(algorithm, "INNER", S_join_cond) EXCEPT
       !.children = <<scan_of(left), scan_of(right)>>]

ManualPlans ==
    {test_plan} \cup { manual_join(a, S_users, S_orders) : a \in JoinTypes }

filter_over(cond, child) == [FilterNode(cond) EXCEPT !.children = <<child>>]
project_over(projections, child) ==
    [ProjectNode(projections) EXCEPT !.children = <<child>>]

SampleConditions ==
    {S_age_gt_25, S_age_lt_30, expression_to_string(where_age_gt_25),
     S_id_eq \o <<"7">>, S_id_eq \o S_name}

SampleProjections ==
    {<<S_star>>, <<S_name, S_age>>, <<S_users \o S_dot \o S_name>>,
     <<S_age, S_product>>}

\* WHERE texts with more than one comparison, or with none the executor
\* knows, as expression_to_string writes them
CompoundConditions ==
    LET column(name) == ColumnExpression(S_empty, name)
        literal(text) == LiteralExpression(text)
        compare(name, operation, text) ==
            BinaryOpExpression(column(name), literal(text), operation)
        both(l, r) == BinaryOpExpression(l, r, "AND")
    IN  [both_ages |->
            expression_to_string(both(where_age_lt_30, where_age_gt_25)),
         id_and_age |->
            expression_to_string(both(compare(S_id, "EQUALS", <<"7">>), where_age_lt_30)),
         id_is_2 |->
            expression_to_string(compare(S_id, "EQUALS", <<"2">>)),
         name_then_id |->
            expression_to_string(both(compare(S_name, "EQUALS", <<"O", "d", "d">>),
                                      compare(S_id, "EQUALS", <<"7">>))),
         ge_then_id |->
            expression_to_string(both(compare(S_age, "GREATER_EQUAL", <<"3">>),
                                      compare(S_id, "EQUALS", <<"7">>))),
         user_id_is_1 |->
            expression_to_string(compare(S_user_id, "EQUALS", <<"1">>)),
         city |->
            expression_to_string(compare(S_city, "EQUALS", <<"C", "i", "t", "y", "1">>))]

\* plans without a join, run over the full sample data (SpecSample)
SingleTablePlans ==
    LET scans == { scan_of(t) : t \in {S_users, S_products} }
        filters == { filter_over(c, sc) : c \in SampleConditions, sc \in scans }
        nested == { filter_over(S_age_gt_25,
                                project_over(<<S_name, S_age>>, scan_of(S_users))),
                    filter_over(S_age_gt_25, project_over(<<S_name>>, scan_of(S_users))),
                    filter_over(S_age_lt_30, filter_over(S_age_gt_25, scan_of(S_users))) }
    IN  {test_plan, scan_of(S_orders)} \cup scans \cup filters \cup nested
        \cup { project_over(pl, child) :
                 pl \in SampleProjections, child \in scans \cup filters }

-----------------------------------------------------------------------------
(* The state machine *)

Init ==
    /\ tables = <<>>
    /\ table_stats = QueryOptimizerInit
    /\ pb_stats = PlanBuilderInit
    /\ stmt = NOSTMT
    /\ candidates = <<>>
    /\ generated = FALSE
    /\ best_plan = NULLPTR
    /\ best_from = "none"
    /\ exec_plan = NULLPTR
    /\ result = NORESULT

\* tm.populate_sample_data() with loop limits nu, no; every driver calls it
\* before it constructs the Executor
PopulateSampleData(nu, no) ==
    /\ tables = <<>>
    /\ exec_plan = NULLPTR
    /\ tables' = populate_sample_data(nu, no)
    /\ UNCHANGED <<table_stats, pb_stats, stmt, candidates, generated,
                   best_plan, best_from, exec_plan, result>>

\* tm.get_table(table_name)->add_row(row), before the Executor is used
AddRow(table_name, row) ==
    /\ table_name \in DOMAIN tables
    /\ exec_plan = NULLPTR
    /\ Len(tables[table_name].rows) < NumUsers + MaxExtraRows
    /\ tables' = [tables EXCEPT ![table_name].rows = Append(@, row)]
    /\ UNCHANGED <<table_stats, pb_stats, stmt, candidates, generated,
                   best_plan, best_from, exec_plan, result>>

\* QueryOptimizer::set_table_statistics, called before any statement is planned
SetTableStatistics(table_name, tuples, pages) ==
    /\ stmt = NOSTMT
    /\ table_stats' = (table_name :> TableStatistics(tuples, pages, 100)) @@ table_stats
    /\ pb_stats' = (table_name :> Statistics(tuples, pages, 100)) @@ pb_stats
    /\ UNCHANGED <<tables, stmt, candidates, generated, best_plan, best_from,
                   exec_plan, result>>

\* the driver builds a new SelectStatement; its locals start afresh
NewStatement(s) ==
    /\ stmt' = s
    /\ candidates' = <<>>
    /\ generated' = FALSE
    /\ best_plan' = NULLPTR
    /\ best_from' = "none"
    /\ exec_plan' = NULLPTR
    /\ result' = NORESULT
    /\ UNCHANGED <<tables, table_stats, pb_stats>>

\* candidates = optimizer.generate_all_plans(stmt)
GenerateAllPlans ==
    /\ stmt # NOSTMT
    /\ ~generated
    /\ candidates' = generate_all_plans(stmt, table_stats, pb_stats)
    /\ generated' = TRUE
    /\ UNCHANGED <<tables, table_stats, pb_stats, stmt, best_plan, best_from,
                   exec_plan, result>>

\* best_plan = optimizer.select_best_plan(candidates)
SelectBestPlan ==
    /\ stmt # NOSTMT
    /\ best_plan' = select_best_plan(candidates)
    /\ candidates' = after_select(candidates)
    /\ best_from' = "select"
    /\ UNCHANGED <<tables, table_stats, pb_stats, stmt, generated, exec_plan, result>>

\* best_plan = optimizer.optimize(stmt)
Optimize ==
    /\ stmt # NOSTMT
    /\ best_plan' = optimize(stmt, table_stats, pb_stats)
    /\ best_from' = "optimize"
    /\ UNCHANGED <<tables, table_stats, pb_stats, stmt, candidates, generated,
                   exec_plan, result>>

\* result = executor.execute(plan)
Run(plan) ==
    /\ \E outcome \in execute(plan, tables) :
         /\ exec_plan' = plan
         /\ result' = outcome
    /\ UNCHANGED <<tables, table_stats, pb_stats, stmt, candidates, generated,
                   best_plan, best_from>>

ExecuteBestPlan ==
    /\ best_plan # NULLPTR
    /\ Run(best_plan)

ExecuteCandidate(k) ==
    /\ k \in DOMAIN candidates
    /\ candidates[k].plan # NULLPTR
    /\ Run(candidates[k].plan)

ExecuteManual(plan) ==
    /\ plan # NULLPTR
    /\ Run(plan)

Next ==
    \/ PopulateSampleData(NumUsers, NumOrders)
    \/ \E s \in Statements : NewStatement(s)
    \/ GenerateAllPlans
    \/ SelectBestPlan
    \/ Optimize
    \/ ExecuteBestPlan
    \/ \E k \in 1..6 : ExecuteCandidate(k)
    \/ \E plan \in ManualPlans : ExecuteManual(plan)

Spec == Init /\ [][Next]_vars

\* the optimizer under varying statistics, nothing executed
NextCost ==
    \/ \E t \in {S_users, S_orders}, n \in {1, 13, 14, 199}, pp \in {1, 10} :
         SetTableStatistics(t, n, pp)
    \/ \E s \in CostStatements : NewStatement(s)
    \/ GenerateAllPlans
    \/ SelectBestPlan
    \/ Optimize

SpecCost == Init /\ [][NextCost]_vars

\* the single-table executor path over the program's own sample data
NextSample ==
    \/ PopulateSampleData(SAMPLE_USERS, SAMPLE_ORDERS)
    \/ \E plan \in SingleTablePlans : ExecuteManual(plan)

SpecSample == Init /\ [][NextSample]_vars

\* single-table plans over the scaled sample data with further rows in users:
\* one without an age, one whose age is a string, one whose id is a string,
\* one like the sample rows
NextRows ==
    LET further_rows ==
            { <<IntVal(7)>>,
              <<IntVal(7), StrVal("Odd"), StrVal("n/a"), StrVal("City1")>>,
              <<StrVal("7"), StrVal("Odd"), IntVal(26), StrVal("City1")>>,
              <<IntVal(7), StrVal("Odd"), IntVal(40), StrVal("City1")>> }
    IN  \/ PopulateSampleData(NumUsers, NumOrders)
        \/ \E row \in further_rows : AddRow(S_users, row)
        \/ \E plan \in SingleTablePlans : ExecuteManual(plan)
        \/ \E name \in DOMAIN CompoundConditions, t \in {S_users, S_orders} :
              ExecuteManual(filter_over(CompoundConditions[name], scan_of(t)))

SpecRows == Init /\ [][NextRows]_vars

\* hand-built join plans of every algorithm, declared INNER or LEFT_OUTER, over the
\* scaled sample data, users holding at most one further row: a regular row
\* that matches no order, a row whose id is a string, a row that repeats id 1
\* and has an int where the name is, a row that holds an id only.  Some plans
\* scan products, a table the catalog never holds.
NextJoin ==
    LET further_rows ==
            { <<IntVal(7), StrVal("Odd"), IntVal(40), StrVal("City1")>>,
              <<StrVal("7"), StrVal("Odd"), IntVal(26), StrVal("City1")>>,
              <<IntVal(1), IntVal(2), IntVal(40), StrVal("City1")>>,
              <<IntVal(2)>> }
        typed_join(algorithm, jtype, left, right) ==
            [manual_join(algorithm, left, right) EXCEPT !.join_type = jtype]
        join_plans ==
            { typed_join(a, jtype, pair[1], pair[2]) :
                a \in JoinTypes,
                jtype \in {"INNER", "LEFT_OUTER"},
                pair \in {<<S_users, S_orders>>, <<S_orders, S_users>>} }
        missing_table_plans ==
            { manual_join(a, pair[1], pair[2]) :
                a \in JoinTypes,
                pair \in {<<S_users, S_products>>, <<S_products, S_orders>>} }
            \cup { project_over(<<S_name, S_age>>,
                      filter_over(S_age_gt_25, manual_join(a, S_users, S_products))) :
                   a \in JoinTypes }
            \cup { [manual_join(a, S_users, S_orders) EXCEPT
                      !.children = <<manual_join(a, S_users, S_orders),
                                     filter_over(S_age_lt_30, scan_of(S_products))>>] :
                   a \in JoinTypes }
    IN  \/ PopulateSampleData(NumUsers, NumOrders)
        \/ \E row \in further_rows :
              /\ S_users \in DOMAIN tables
              /\ Len(tables[S_users].rows) = NumUsers
              /\ AddRow(S_users, row)
        \/ \E plan \in join_plans \cup missing_table_plans : ExecuteManual(plan)

SpecJoin == Init /\ [][NextJoin]_vars

-----------------------------------------------------------------------------
(* Properties *)

Count(seq, x) == Cardinality({ k \in DOMAIN seq : seq[k] = x })

\* a row with its column order set aside: how often each value occurs in it
RowKey(row) == [v \in { row[k] : k \in DOMAIN row } |-> Count(row, v)]

\* two row lists hold the same multiset of rows, whatever the column order
SameMultiset(a, b) ==
    LET ka == [k \in DOMAIN a |-> RowKey(a[k])]
        kb == [k \in DOMAIN b |-> RowKey(b[k])]
    IN  /\ Len(a) = Len(b)
        /\ \A k \in DOMAIN ka : Count(ka, ka[k]) = Count(kb, ka[k])

RECURSIVE Nodes(_)
\* every node of a plan
Nodes(plan) ==
    IF plan = NULLPTR THEN {}
    ELSE {plan} \cup UNION { Nodes(plan.children[k]) : k \in DOMAIN plan.children }

\* the candidates the optimizer would enumerate for the current statement
CurrentCandidates == generate_all_plans(stmt, table_stats, pb_stats)

\* C1: the plan optimize(stmt) returns is a plan, and its root total_cost is
\* at most the total_cost of every candidate of generate_all_plans(stmt)
\* under the same statistics
C1_OptimizeIsCheapest ==
    best_from = "optimize" =>
        /\ best_plan # NULLPTR
        /\ \A k \in DOMAIN CurrentCandidates :
             DLeq(best_plan.cost.total_cost, CurrentCandidates[k].cost.total_cost)

\* a join statement was optimized and some candidate costs strictly more
C1_Witness ==
    /\ best_from = "optimize"
    /\ Len(stmt.joins) >= 1
    /\ best_plan # NULLPTR
    /\ \E k \in DOMAIN CurrentCandidates :
         DLess(best_plan.cost.total_cost, CurrentCandidates[k].cost.total_cost)

\* C2: when a candidate of a single-join statement has been executed, every
\* candidate of that statement yields the same multiset of rows as it did
C2_CandidatesEquivalent ==
    ( /\ generated
      /\ Len(stmt.joins) = 1
      /\ tables # <<>>
      /\ result.ok
      /\ \E k \in DOMAIN candidates : candidates[k].plan = exec_plan )
    => \A k \in DOMAIN candidates :
         candidates[k].plan # NULLPTR =>
            \A other \in execute(candidates[k].plan, tables) :
               other.ok /\ SameMultiset(result.rows, other.rows)

\* the nested-loop candidate of users JOIN orders returned the whole product
C2_Witness ==
    /\ generated
    /\ stmt.from_table = TableReference(S_users)
    /\ stmt.joins = <<join_orders>>
    /\ exec_plan = candidates[1].plan
    /\ result.ok
    /\ Len(result.rows) = Len(tables[S_users].rows) * Len(tables[S_orders].rows)
    /\ Len(tables[S_orders].rows) > 0

\* C3: generate_all_plans returns 6 candidates for a statement with one join
\* and 1 candidate for a statement with no join
C3_EnumerationCount ==
    generated =>
        /\ Len(stmt.joins) = 1 => Len(candidates) = 6
        /\ Len(stmt.joins) = 0 => Len(candidates) = 1

\* a statement without a join was enumerated into three identical candidates
C3_Witness ==
    /\ generated
    /\ Len(stmt.joins) = 0
    /\ Len(candidates) = 3
    /\ candidates[1] = candidates[2]
    /\ candidates[2] = candidates[3]

\* the join nodes the executor tests build over scans of users and orders
users_orders_join(algorithm) == manual_join(algorithm, S_users, S_orders)

\* C4: over the sample data, the rows a join node over (users, orders) has
\* returned are, as a multiset, the rows every join algorithm returns for
\* the same two scans
C4_JoinAlgorithmsAgree ==
    ( /\ tables # <<>>
      /\ \E a \in JoinTypes : exec_plan = users_orders_join(a) )
    => /\ result.ok
       /\ \A b \in JoinTypes :
            \A other \in execute(users_orders_join(b), tables) :
               other.ok /\ SameMultiset(result.rows, other.rows)

\* the nested-loop node returned |users| * |orders| rows where the hash join
\* returns |orders|
C4_Witness ==
    /\ tables # <<>>
    /\ exec_plan = users_orders_join("NESTED_LOOP_JOIN")
    /\ result.ok
    /\ Len(result.rows) = Len(tables[S_users].rows) * Len(tables[S_orders].rows)
    /\ \A other \in execute(users_orders_join("HASH_JOIN"), tables) :
         Len(other.rows) = Len(tables[S_orders].rows)
    /\ Len(tables[S_users].rows) > 1

\* every orders.user_id equals exactly one users.id
EachOrderHasOneUser ==
    \A k \in DOMAIN tables[S_orders].rows :
       Cardinality({ j \in DOMAIN tables[S_users].rows :
                       tables[S_users].rows[j][1] = tables[S_orders].rows[k][2] }) = 1

\* C5: with users as left and orders as right child, and every orders.user_id
\* equal to exactly one users.id, HashJoin and SortMergeJoin return one row
\* per orders row: that orders row after the users row it refers to
C5_OneRowPerOrder ==
    ( /\ tables # <<>>
      /\ EachOrderHasOneUser
      /\ exec_plan \in {users_orders_join("HASH_JOIN"),
                        users_orders_join("SORT_MERGE_JOIN")} )
    => /\ result.ok
       /\ Len(result.rows) = Len(tables[S_orders].rows)
       /\ \A k \in DOMAIN tables[S_orders].rows :
            LET order == tables[S_orders].rows[k]
                hits == { j \in DOMAIN result.rows :
                            SubSeq(result.rows[j], 5, 8) = order }
            IN  /\ Cardinality(hits) = 1
                /\ \A j \in hits : result.rows[j][1] = order[2]
                /\ \A j \in hits :
                     \E u \in DOMAIN tables[S_users].rows :
                        SubSeq(result.rows[j], 1, 4) = tables[S_users].rows[u]

\* a sort-merge join over the sample data returned several orders of one user
C5_Witness ==
    /\ tables # <<>>
    /\ exec_plan = users_orders_join("SORT_MERGE_JOIN")
    /\ result.ok
    /\ Len(result.rows) = Len(tables[S_orders].rows)
    /\ \E j, k \in DOMAIN result.rows :
         j # k /\ result.rows[j][1] = result.rows[k][1]

\* the rows of users with age > 25, reduced to (name, age), in table order
UsersOver25 ==
    LET over == SelectSeq(tables[S_users].rows, LAMBDA row : row[3].i > 25)
    IN  [k \in DOMAIN over |-> <<over[k][2], over[k][3]>>]

\* C6 (amended): Project([name, age], Filter("age > 25", TableScan(users)))
\* over the sample data returns exactly the users with age > 25, as
\* (name, age); there are 880 of them
C6_FilterProjectRows ==
    (tables # <<>> /\ exec_plan = test_plan)
    => /\ result.ok
       /\ result.schema = TableSchema(<<S_name, S_age>>, <<"string", "int">>)
       /\ result.rows = UsersOver25
       /\ Len(result.rows) = 880

\* C6 as stated: the rows with age > 25, and their count is 900
C6_AsStated ==
    (tables # <<>> /\ exec_plan = test_plan)
    => /\ result.ok
       /\ result.rows = UsersOver25
       /\ Len(result.rows) = 900

\* the test plan ran over all 1000 sample users and dropped the age-25 ones
C6_Witness ==
    /\ tables # <<>>
    /\ Len(tables[S_users].rows) = SAMPLE_USERS
    /\ exec_plan = test_plan
    /\ result.ok
    /\ result.rows # <<>>
    /\ \E k \in DOMAIN tables[S_users].rows : tables[S_users].rows[k][3].i = 25

\* the statistics of C7: users 1000 tuples / 10 pages, orders 5000 / 50
ScenarioStatistics ==
    /\ table_stats[S_users].tuple_count = 1000
    /\ table_stats[S_users].page_count = 10
    /\ table_stats[S_orders].tuple_count = 5000
    /\ table_stats[S_orders].page_count = 50

\* the cost model's estimate for the users-orders join run by one algorithm
users_orders_cost(algorithm) ==
    estimate_plan_cost(users_orders_join(algorithm), table_stats).total_cost

UsersOrdersEnumerated ==
    /\ generated
    /\ ScenarioStatistics
    /\ stmt.from_table = TableReference(S_users)
    /\ stmt.joins = <<join_orders>>

\* C7 (amended): with users = 1000/10 and orders = 5000/50 the users-orders
\* join costs SortMergeJoin < HashJoin < NestedLoopJoin, for the join node and
\* for the candidates built on it
C7_CostOrder ==
    UsersOrdersEnumerated
    => /\ DLess(users_orders_cost("SORT_MERGE_JOIN"), users_orders_cost("HASH_JOIN"))
       /\ DLess(users_orders_cost("HASH_JOIN"), users_orders_cost("NESTED_LOOP_JOIN"))
       /\ DLess(candidates[3].cost.total_cost, candidates[2].cost.total_cost)
       /\ DLess(candidates[2].cost.total_cost, candidates[1].cost.total_cost)

\* C7 as stated: HashJoin < SortMergeJoin < NestedLoopJoin
C7_AsStated ==
    UsersOrdersEnumerated
    => /\ DLess(users_orders_cost("HASH_JOIN"), users_orders_cost("SORT_MERGE_JOIN"))
       /\ DLess(users_orders_cost("SORT_MERGE_JOIN"),
                users_orders_cost("NESTED_LOOP_JOIN"))

\* the users-orders statement was enumerated under the scenario's statistics
C7_Witness ==
    /\ UsersOrdersEnumerated
    /\ Len(candidates) = 6
    /\ candidates[2].plan # NULLPTR
    /\ \E n \in Nodes(candidates[2].plan) :
         /\ n.type = "HASH_JOIN"
         /\ estimate_plan_cost(n, table_stats).total_cost = users_orders_cost("HASH_JOIN")

\* the join nodes of the enumerated candidates
CandidateJoins ==
    UNION { { n \in Nodes(candidates[k].plan) : n.type \in JoinTypes } :
            k \in DOMAIN candidates }

left_tuples_of(n) == estimate_output_cardinality(n.children[1], table_stats)
right_tuples_of(n) == estimate_output_cardinality(n.children[2], table_stats)

\* the estimate for the inputs of join node n joined by the given algorithm
cost_as(n, algorithm) ==
    estimate_plan_cost([n EXCEPT !.type = algorithm], table_stats).total_cost

\* C8 (amended): for inputs L, R with L.tuples * R.tuples >= 1000 and
\* L.tuples >= 14, HashJoin(L, R) costs strictly less than NestedLoopJoin(L, R)
C8_HashBelowNestedLoop ==
    generated =>
        \A n \in CandidateJoins :
           (left_tuples_of(n) * right_tuples_of(n) >= 1000 /\ left_tuples_of(n) >= 14)
           => DLess(cost_as(n, "HASH_JOIN"), cost_as(n, "NESTED_LOOP_JOIN"))

\* C8 as stated: L.tuples * R.tuples >= 1000 alone
C8_AsStated ==
    generated =>
        \A n \in CandidateJoins :
           left_tuples_of(n) * right_tuples_of(n) >= 1000
           => DLess(cost_as(n, "HASH_JOIN"), cost_as(n, "NESTED_LOOP_JOIN"))

\* a join with 14 left and 199 right tuples was enumerated: the smallest left
\* input of the amended claim against a right input of one page
C8_Witness ==
    /\ generated
    /\ \E n \in CandidateJoins :
         /\ left_tuples_of(n) = 14
         /\ right_tuples_of(n) = 199
         /\ DLess(cost_as(n, "HASH_JOIN"), cost_as(n, "NESTED_LOOP_JOIN"))

CostSums(c) == c.total_cost = DAdd(c.io_cost, c.cpu_cost)

\* C9: every CostEstimate of a candidate, of a node of a candidate's plan or
\* of the best plan, and every estimate the cost model returns for such a
\* node, has total_cost = io_cost + cpu_cost
C9_TotalIsSum ==
    /\ \A k \in DOMAIN candidates :
         /\ CostSums(candidates[k].cost)
         /\ \A n \in Nodes(candidates[k].plan) :
              CostSums(n.cost) /\ CostSums(estimate_plan_cost(n, table_stats))
    /\ \A n \in Nodes(best_plan) :
         CostSums(n.cost) /\ CostSums(estimate_plan_cost(n, table_stats))

\* a join statement was enumerated and optimized, with I/O and CPU both charged
C9_Witness ==
    /\ generated
    /\ best_from = "optimize"
    /\ best_plan # NULLPTR
    /\ Len(candidates) = 6
    /\ DLess(DZero, best_plan.cost.io_cost)
    /\ DLess(DZero, best_plan.cost.cpu_cost)
    /\ DLess(best_plan.cost.io_cost, best_plan.cost.total_cost)

\* the scans of the enumerated candidates and of the best plan
PlannedScans ==
    { n \in Nodes(best_plan) : n.type = "TABLE_SCAN" }
    \cup UNION { { n \in Nodes(candidates[k].plan) : n.type = "TABLE_SCAN" } :
                 k \in DOMAIN candidates }

\* C10: a TableScan of a table with statistics (n tuples, pp pages) in the
\* cost model is estimated at io = pp * 1.0 and cpu = n * 0.01
C10_ScanCost ==
    \A n \in PlannedScans :
       n.table_name \in DOMAIN table_stats
       => LET c == estimate_plan_cost(n, table_stats)
              st == table_stats[n.table_name]
          IN  /\ c.io_cost = Dbl(st.page_count, 0)
              /\ c.cpu_cost = Dbl(st.tuple_count \div 100, (st.tuple_count % 100) * 8)

\* a scan of users was planned after its statistics were set to 13 tuples on
\* 10 pages
C10_Witness ==
    /\ table_stats[S_users].tuple_count = 13
    /\ table_stats[S_users].page_count = 10
    /\ \E n \in PlannedScans :
         /\ n.table_name = S_users
         /\ estimate_plan_cost(n, table_stats).cpu_cost = Dbl(0, 104)

\* the planned scans of tables the cost model holds no statistics for
UnknownTableScans == { n \in PlannedScans : n.table_name \notin DOMAIN table_stats }

\* C11: a TableScan of a table without statistics is sized and costed as a
\* table of 1000 tuples on 10 pages: cardinality 1000, io = 10 * SEQUENTIAL_IO
\* and cpu = 1000 * CPU_TUPLE
C11_DefaultStatistics ==
    \A n \in UnknownTableScans :
       /\ estimate_output_cardinality(n, table_stats) = 1000
       /\ estimate_plan_cost(n, table_stats).io_cost = Mul(10, SEQUENTIAL_IO_COST)
       /\ estimate_plan_cost(n, table_stats).cpu_cost = Mul(1000, CPU_TUPLE_COST)

\* a scan of products was planned: sized at 1000 tuples, its CPU cost is 1.0
C11_Witness ==
    \E n \in UnknownTableScans :
       /\ n.table_name = S_products
       /\ estimate_output_cardinality(n, table_stats) = 1000
       /\ estimate_plan_cost(n, table_stats).io_cost = Dbl(10, 0)
       /\ estimate_plan_cost(n, table_stats).cpu_cost = Dbl(1, 0)

\* candidate k of cands has minimum total_cost and every earlier candidate
\* costs strictly more
EarliestMinimum(cands, k) ==
    /\ \A j \in DOMAIN cands :
         DLeq(cands[k].cost.total_cost, cands[j].cost.total_cost)
    /\ \A j \in DOMAIN cands :
         j < k => cands[j].cost.total_cost # cands[k].cost.total_cost

\* C12: every call of select_best_plan on a non-empty list returns the plan
\* of a candidate of minimum total_cost, the earliest inserted one when
\* several share the minimum, and moves exactly that plan out of the list
C12_EarliestCheapest ==
    [][(SelectBestPlan /\ candidates # <<>>) =>
          \E k \in DOMAIN candidates :
             /\ EarliestMinimum(candidates, k)
             /\ best_plan' = candidates[k].plan
             /\ candidates' = [candidates EXCEPT ![k].plan = NULLPTR]]_vars

\* select_best_plan took candidate 3 although candidate 6 costs the same
C12_Witness ==
    /\ best_from = "select"
    /\ best_plan # NULLPTR
    /\ Len(candidates) = 6
    /\ candidates[3].plan = NULLPTR
    /\ candidates[6].plan # NULLPTR
    /\ candidates[6].cost.total_cost = candidates[3].cost.total_cost
    /\ best_plan.cost.total_cost = candidates[3].cost.total_cost

\* what the driver would hold in place of a plan had the call thrown
OptimizationFailed == [type |-> "exception", what |-> "OptimizationFailed"]

\* C13: select_best_plan on an empty candidate list fails with
\* OptimizationFailed and returns no plan value
C13_EmptyListFails ==
    (best_from = "select" /\ candidates = <<>>) => best_plan = OptimizationFailed

\* select_best_plan was called on an empty list and returned nullptr
C13_Witness ==
    /\ stmt # NOSTMT
    /\ best_from = "select"
    /\ candidates = <<>>
    /\ ~generated
    /\ best_plan = NULLPTR

\* the Filter nodes of the plan last executed
ExecutedFilters == { n \in Nodes(exec_plan) : n.type = "FILTER" }

\* C14: for every Filter(c, S) inside an executed plan, Filter(c, Filter(c, S))
\* produces what Filter(c, S) produces: the same schema and the same rows in
\* the same order (or the same exception)
C14_FilterIdempotent ==
    \A n \in ExecutedFilters :
       execute(filter_over(n.condition, n), tables) = execute(n, tables)

\* a filter over the sample users ran that kept some rows and dropped others
C14_Witness ==
    /\ tables # <<>>
    /\ exec_plan.type = "FILTER"
    /\ result.ok
    /\ result.rows # <<>>
    /\ Len(result.rows) < Len(tables[S_users].rows)
    /\ execute(filter_over(exec_plan.condition, exec_plan), tables) = {result}

\* the Project([*], S) nodes of the plan last executed
ExecutedStarProjects ==
    { n \in Nodes(exec_plan) :
        n.type = "PROJECT" /\ n.projection_list = <<S_star>> /\ n.children # <<>> }

\* C15: every Project([*], S) of an executed plan produces exactly what S
\* produces, and so does Project([*], S) put over any node S of that plan
C15_ProjectStarPassThrough ==
    /\ \A n \in ExecutedStarProjects :
         execute(n, tables) = execute(n.children[1], tables)
    /\ \A n \in Nodes(exec_plan) :
         execute(project_over(<<S_star>>, n), tables) = execute(n, tables)

\* a SELECT * candidate over a join ran and returned the join's eight columns
C15_Witness ==
    /\ tables # <<>>
    /\ exec_plan \in ExecutedStarProjects
    /\ exec_plan.children[1].type \in JoinTypes
    /\ result.ok
    /\ result.rows # <<>>
    /\ Len(result.schema.column_names) = 8
    /\ result \in execute(exec_plan.children[1], tables)

\* the type the schema gives the first column of that name
TypeOf(schema, name) ==
    schema.column_types[CHOOSE k \in DOMAIN schema.column_names :
                           /\ schema.column_names[k] = name
                           /\ \A j \in 1..(k - 1) : schema.column_names[j] # name]

\* the column a projection text names: the text after its first '.'
ColumnNamed(proj) ==
    IF \E k \in DOMAIN proj : proj[k] = "."
    THEN LET dot == CHOOSE k \in DOMAIN proj :
                       proj[k] = "." /\ \A j \in 1..(k - 1) : proj[j] # "."
         IN  SubSeq(proj, dot + 1, Len(proj))
    ELSE proj

RECURSIVE OutputSchema(_)
\* the output schema each operator defines, over the current tables
OutputSchema(plan) ==
    CASE plan.type = "TABLE_SCAN" -> tables[plan.table_name].schema
      [] plan.type = "FILTER" -> OutputSchema(plan.children[1])
      [] plan.type = "PROJECT" ->
           LET below == OutputSchema(plan.children[1])
               wanted == [k \in DOMAIN plan.projection_list |->
                            ColumnNamed(plan.projection_list[k])]
               resolvable ==
                   SelectSeq(wanted,
                             LAMBDA name : \E k \in DOMAIN below.column_names :
                                              below.column_names[k] = name)
           IN  IF plan.projection_list = <<S_star>> THEN below
               ELSE TableSchema(resolvable,
                                [k \in DOMAIN resolvable |-> TypeOf(below, resolvable[k])])
      [] plan.type \in JoinTypes ->
           LET left == OutputSchema(plan.children[1])
               right == OutputSchema(plan.children[2])
           IN  TableSchema(left.column_names \o right.column_names,
                           left.column_types \o right.column_types)

\* C16: the schema of a result is the operator-defined output schema of the
\* executed plan: scan - the table's schema; filter - its child's; project -
\* the resolvable projected columns in projection order; join - the left
\* child's schema followed by the right child's
C16_OutputSchema ==
    (exec_plan # NULLPTR /\ result.ok) => result.schema = OutputSchema(exec_plan)

\* SELECT name, age over users JOIN orders ran: two columns out of eight
C16_Witness ==
    /\ exec_plan # NULLPTR
    /\ result.ok
    /\ exec_plan.type = "PROJECT"
    /\ exec_plan.projection_list = <<S_name, S_age>>
    /\ exec_plan.children[1].type \in JoinTypes
    /\ result.schema = TableSchema(<<S_name, S_age>>, <<"string", "int">>)
    /\ Len(OutputSchema(exec_plan.children[1]).column_names) = 8

\* the lines of a text: the pieces between its newlines; a text ending in a
\* newline has an empty last line
SplitLines(text) ==
    LET breaks == { k \in DOMAIN text : text[k] = "\n" }
        nth(i) == IF i = 0 THEN 0
                  ELSE IF i > Cardinality(breaks) THEN Len(text) + 1
                  ELSE CHOOSE k \in breaks :
                          Cardinality({ j \in breaks : j <= k }) = i
    IN  [i \in 1..(Cardinality(breaks) + 1) |->
           SubSeq(text, nth(i - 1) + 1, nth(i) - 1)]

RECURSIVE PreOrder(_, _)
\* the nodes of a plan with their depths: node, then left child, then right
PreOrder(plan, depth) ==
    <<[node |-> plan, depth |-> depth]>>
    \o (IF Len(plan.children) >= 1 THEN PreOrder(plan.children[1], depth + 1) ELSE <<>>)
    \o (IF Len(plan.children) >= 2 THEN PreOrder(plan.children[2], depth + 1) ELSE <<>>)

RECURSIVE WellFormed(_)
\* a scan is a leaf, a filter and a project have one child, a join has two
WellFormed(plan) ==
    /\ plan.type \in {"TABLE_SCAN", "FILTER", "PROJECT"} \cup JoinTypes
    /\ Len(plan.children) = (CASE plan.type = "TABLE_SCAN" -> 0
                               [] plan.type \in {"FILTER", "PROJECT"} -> 1
                               [] OTHER -> 2)
    /\ \A k \in DOMAIN plan.children : WellFormed(plan.children[k])

\* how the line of a node opens
Opening(node) ==
    CASE node.type = "TABLE_SCAN" -> <<"T", "a", "b", "l", "e", "S", "c", "a", "n", "(">>
      [] node.type = "FILTER" -> <<"F", "i", "l", "t", "e", "r", "(">>
      [] node.type = "PROJECT" -> <<"P", "r", "o", "j", "e", "c", "t", "(">>
      [] node.type = "NESTED_LOOP_JOIN" ->
           <<"N", "e", "s", "t", "e", "d", "L", "o", "o", "p", "J", "o", "i", "n", "(">>
      [] node.type = "HASH_JOIN" -> <<"H", "a", "s", "h", "J", "o", "i", "n", "(">>
      [] node.type = "SORT_MERGE_JOIN" ->
           <<"S", "o", "r", "t", "M", "e", "r", "g", "e", "J", "o", "i", "n", "(">>

\* the line is 2 * depth spaces, then the node's opening, and ends in ")"
LineOf(line, node, depth) ==
    LET head == 2 * depth + Len(Opening(node))
    IN  /\ Len(line) > head
        /\ \A k \in 1..(2 * depth) : line[k] = " "
        /\ SubSeq(line, 2 * depth + 1, head) = Opening(node)
        /\ line[Len(line)] = ")"

\* one line per node in pre-order, indented by depth, no trailing newline
PrettyPrinted(plan) ==
    LET text == to_string(plan, 0)
        lines == SplitLines(text)
        nodes == PreOrder(plan, 0)
    IN  /\ Len(lines) = Len(nodes)
        /\ \A k \in DOMAIN lines : LineOf(lines[k], nodes[k].node, nodes[k].depth)
        /\ text[Len(text)] # "\n"

\* the plans the drivers print: the best plan, the executed plan, the candidates
PrintedPlans ==
    ({best_plan, exec_plan} \cup { candidates[k].plan : k \in DOMAIN candidates })
    \ {NULLPTR}

GoldenOutput ==
    <<"P", "r", "o", "j", "e", "c", "t", "(", "n", "a", "m", "e", ",", " ", "a", "g", "e", ")", "\n", " ", " ", "F", "i", "l", "t", "e", "r", "(", "a", "g", "e", " ", ">", " ", "2", "5", ")", "\n">>
    \o <<" ", " ", " ", " ", "T", "a", "b", "l", "e", "S", "c", "a", "n", "(", "u", "s", "e", "r", "s", ")">>

\* C17: a well-formed plan prints as one line per node in pre-order, each
\* indented by two spaces per depth level, with no blank line and no trailing
\* newline; Project([name, age], Filter("age > 25", TableScan("users")))
\* prints as 'Project(name, age)', '  Filter(age > 25)', '    TableScan(users)'
C17_PrettyPrint ==
    /\ \A plan \in PrintedPlans : WellFormed(plan) => PrettyPrinted(plan)
    /\ exec_plan = test_plan => to_string(exec_plan, 0) = GoldenOutput

\* the test plan was printed, and so was a candidate with a join at depth 1
C17_Witness ==
    /\ exec_plan = test_plan
    /\ SplitLines(to_string(exec_plan, 0))[3]
         = <<" ", " ", " ", " ", "T", "a", "b", "l", "e", "S", "c", "a", "n", "(", "u", "s", "e", "r", "s", ")">>
    /\ \E plan \in PrintedPlans :
         /\ WellFormed(plan)
         /\ Len(PreOrder(plan, 0)) >= 4
         /\ PreOrder(plan, 0)[2].node.type \in JoinTypes
         /\ PreOrder(plan, 0)[2].depth = 1

\* C18: for a statement with zero joins and a WHERE clause, optimize()
\* returns Project over exactly one child, a Filter, over exactly one child,
\* a TableScan of the FROM table
C18_SingleTableShape ==
    (best_from = "optimize" /\ stmt.joins = <<>> /\ stmt.where_clause # NOEXPR)
    => /\ best_plan # NULLPTR
       /\ best_plan.type = "PROJECT"
       /\ Len(best_plan.children) = 1
       /\ best_plan.children[1].type = "FILTER"
       /\ Len(best_plan.children[1].children) = 1
       /\ best_plan.children[1].children[1].type = "TABLE_SCAN"
       /\ best_plan.children[1].children[1].children = <<>>
       /\ best_plan.children[1].children[1].table_name = stmt.from_table.table_name

\* SELECT * FROM orders WHERE age > 25 was optimized into three nodes
C18_Witness ==
    /\ best_from = "optimize"
    /\ stmt.joins = <<>>
    /\ stmt.where_clause = where_age_gt_25
    /\ stmt.from_table = TableReference(S_orders)
    /\ best_plan # NULLPTR
    /\ Cardinality(Nodes(best_plan)) = 3
    /\ best_plan.children[1].condition = expression_to_string(where_age_gt_25)

\* the position of the first column called name in a schema, 0 if there is none
FirstColumn(schema, name) ==
    IF \E k \in DOMAIN schema.column_names : schema.column_names[k] = name
    THEN CHOOSE k \in DOMAIN schema.column_names :
            /\ schema.column_names[k] = name
            /\ \A j \in 1..(k - 1) : schema.column_names[j] # name
    ELSE 0

\* the row has an integer in the column called name
ReadsInt(row, schema, name) ==
    /\ FirstColumn(schema, name) \in 1..Len(row)
    /\ row[FirstColumn(schema, name)].t = "int"

\* what the recognised predicates of SampleConditions ask of a row
Satisfies(row, schema, cond) ==
    CASE cond \in {S_age_gt_25, expression_to_string(where_age_gt_25)} ->
            ReadsInt(row, schema, S_age) /\ row[FirstColumn(schema, S_age)].i > 25
      [] cond = S_age_lt_30 ->
            ReadsInt(row, schema, S_age) /\ row[FirstColumn(schema, S_age)].i < 30
      [] cond = S_id_eq \o <<"7">> ->
            ReadsInt(row, schema, S_id) /\ row[FirstColumn(schema, S_id)].i = 7
      [] OTHER -> FALSE

\* the executed plan is a filter with a recognised predicate whose child
\* completes
RecognisedFilterRan ==
    /\ exec_plan.type = "FILTER"
    /\ exec_plan.children # <<>>
    /\ exec_plan.condition \in SampleConditions \ {S_id_eq \o S_name}
    /\ \A child_result \in execute(exec_plan.children[1], tables) : child_result.ok

\* C19: a filter with a recognised predicate completes without an error; its
\* result has the child's schema and exactly the child's rows whose column is
\* found, reads as an integer and satisfies the predicate, in the child's
\* order: a row whose lookup or integer read fails is dropped
C19_FailedReadsDropped ==
    RecognisedFilterRan =>
        /\ result.ok
        /\ \E child_result \in execute(exec_plan.children[1], tables) :
              /\ result.schema = child_result.schema
              /\ result.rows =
                    SelectSeq(child_result.rows,
                              LAMBDA row : Satisfies(row, child_result.schema,
                                                     exec_plan.condition))

\* "age < 30" ran over users holding, after the sample rows, a row without an
\* age and a row whose age is a string: the result is complete and holds the
\* sample rows only
C19_Witness ==
    /\ RecognisedFilterRan
    /\ exec_plan = filter_over(S_age_lt_30, scan_of(S_users))
    /\ \E k \in DOMAIN tables[S_users].rows : Len(tables[S_users].rows[k]) = 1
    /\ \E k \in DOMAIN tables[S_users].rows :
          /\ Len(tables[S_users].rows[k]) = 4
          /\ tables[S_users].rows[k][3].t = "string"
    /\ result.ok
    /\ result.rows # <<>>
    /\ Len(result.rows) = Len(tables[S_users].rows) - 2
    /\ \A k \in DOMAIN result.rows : result.rows[k] = tables[S_users].rows[k]

\* the executed plan is a Project other than [*] over a child that completes,
\* and none of its projections names a column of the child's schema
NoProjectionResolves ==
    /\ exec_plan.type = "PROJECT"
    /\ exec_plan.children # <<>>
    /\ exec_plan.projection_list # <<S_star>>
    /\ \A child_result \in execute(exec_plan.children[1], tables) :
          /\ child_result.ok
          /\ \A k \in DOMAIN exec_plan.projection_list :
                \A j \in DOMAIN child_result.schema.column_names :
                   child_result.schema.column_names[j]
                       # ColumnNamed(exec_plan.projection_list[k])

\* C20: a Project other than [*] none of whose projections resolves in the
\* child's schema fails with SchemaMismatch and returns no ResultSet
C20_NoProjectionIsFatal ==
    NoProjectionResolves => (~result.ok /\ result.error = "SchemaMismatch")

\* SELECT name, age FROM orders ran on the populated catalog: the execution
\* completed with a ResultSet of no columns that holds one empty row for
\* every row of orders
C20_Witness ==
    /\ NoProjectionResolves
    /\ tables # <<>>
    /\ exec_plan.children[1].type = "TABLE_SCAN"
    /\ exec_plan.children[1].table_name = S_orders
    /\ result.ok
    /\ result.schema.column_names = <<>>
    /\ Len(result.rows) = Len(tables[S_orders].rows)
    /\ result.rows # <<>>
    /\ \A k \in DOMAIN result.rows : result.rows[k] = <<>>

\* the scans of the executed plan whose table is not in the catalog
MissingTableScans ==
    { n \in Nodes(exec_plan) : n.type = "TABLE_SCAN" /\ n.table_name \notin DOMAIN tables }

\* C21: when the executed plan holds, anywhere, a scan of a table that is not
\* in the catalog, the execution ends with the table-not-found exception and
\* nothing else is possible: no outcome is a ResultSet
C21_MissingTableIsFatal ==
    MissingTableScans # {} =>
        /\ ~result.ok
        /\ result.error = "Table not found"
        /\ result.rows = <<>>
        /\ execute(exec_plan, tables) = {result}

\* on the populated catalog a Project over a Filter over a join ran whose
\* left input is a table of the catalog and whose right input scans a
\* missing table: the execution ended with the exception
C21_Witness ==
    /\ tables # <<>>
    /\ exec_plan.type = "PROJECT"
    /\ exec_plan.children[1].type = "FILTER"
    /\ exec_plan.children[1].children[1].type \in JoinTypes
    /\ exec_plan.children[1].children[1].children[1].table_name \in DOMAIN tables
    /\ exec_plan.children[1].children[1].children[2] \in MissingTableScans
    /\ ~result.ok
    /\ result.error = "Table not found"

DeclaredJoinTypes == {"INNER", "LEFT_OUTER", "RIGHT_OUTER", "FULL_OUTER"}

\* the executed plan is a join node whose inputs both complete
JoinRan ==
    /\ exec_plan.type \in JoinTypes
    /\ Len(exec_plan.children) = 2
    /\ \A k \in 1..2 :
          \A child_result \in execute(exec_plan.children[k], tables) : child_result.ok

\* C23: a join node returns the same outcomes under each of the four declared
\* join types, and every row it returns is a left row followed by a right
\* row: no unmatched row is padded out
C23_JoinTypeIgnored ==
    JoinRan =>
        /\ \A jtype \in DeclaredJoinTypes :
              execute([exec_plan EXCEPT !.join_type = jtype], tables)
                  = execute(exec_plan, tables)
        /\ result.ok
        /\ \A k \in DOMAIN result.rows :
              \E left_result \in execute(exec_plan.children[1], tables),
                 right_result \in execute(exec_plan.children[2], tables) :
                 \E i \in DOMAIN left_result.rows, j \in DOMAIN right_result.rows :
                    result.rows[k] = left_result.rows[i] \o right_result.rows[j]

\* a LEFT_OUTER HashJoin of users and orders ran while users held user 7, who
\* has no order: the result is the inner join, one row per order and none
\* for user 7
C23_Witness ==
    /\ JoinRan
    /\ exec_plan.type = "HASH_JOIN"
    /\ exec_plan.join_type = "LEFT_OUTER"
    /\ exec_plan.children[1] = scan_of(S_users)
    /\ exec_plan.children[2] = scan_of(S_orders)
    /\ \E k \in DOMAIN tables[S_users].rows : tables[S_users].rows[k][1] = IntVal(7)
    /\ result.ok
    /\ Len(result.rows) = Len(tables[S_orders].rows)
    /\ \A k \in DOMAIN result.rows : result.rows[k][1] # IntVal(7)

\* the NestedLoopJoin nodes of the enumerated candidates
CandidateNestedLoops == { n \in CandidateJoins : n.type = "NESTED_LOOP_JOIN" }

\* R.pages of a join node: max(1, R.tuples / 100)
right_pages_of(n) ==
    IF right_tuples_of(n) \div 100 >= 1 THEN right_tuples_of(n) \div 100 ELSE 1

\* L.io + R.io and L.cpu + R.cpu of a join node
inputs_io(n) ==
    DAdd(estimate_plan_cost(n.children[1], table_stats).io_cost,
         estimate_plan_cost(n.children[2], table_stats).io_cost)
inputs_cpu(n) ==
    DAdd(estimate_plan_cost(n.children[1], table_stats).cpu_cost,
         estimate_plan_cost(n.children[2], table_stats).cpu_cost)

\* L.tuples * R.pages * RANDOM_IO and L.tuples * R.tuples * CPU_OPERATOR
random_io_term(n) == Mul(left_tuples_of(n) * right_pages_of(n), RANDOM_IO_COST)
compare_term(n) == Mul(left_tuples_of(n) * right_tuples_of(n), CPU_OPERATOR_COST)

\* C24: every enumerated NestedLoopJoin(L, R) costs
\* io = L.io + R.io + L.tuples * R.pages * RANDOM_IO and
\* cpu = L.cpu + R.cpu + L.tuples * R.tuples * CPU_OPERATOR
C24_NestedLoopCost ==
    generated =>
        \A n \in CandidateNestedLoops :
           LET c == estimate_plan_cost(n, table_stats)
           IN  /\ c.io_cost = DAdd(inputs_io(n), random_io_term(n))
               /\ c.cpu_cost = DAdd(inputs_cpu(n), compare_term(n))

\* a NestedLoopJoin was enumerated whose io is as claimed and whose cpu is the
\* claimed cpu plus the random-IO term: the term is counted in io and in cpu
C24_Witness ==
    /\ generated
    /\ \E n \in CandidateNestedLoops :
          LET c == estimate_plan_cost(n, table_stats)
          IN  /\ left_tuples_of(n) = 14
              /\ right_tuples_of(n) = 199
              /\ c.io_cost = DAdd(inputs_io(n), random_io_term(n))
              /\ c.cpu_cost = DAdd(DAdd(inputs_cpu(n), compare_term(n)),
                                   random_io_term(n))
              /\ DLess(DZero, random_io_term(n))

\* C28: a call of select_best_plan on a non-empty list keeps the length of the
\* list and every cost, keeps the plan of every candidate but the selected
\* one, and leaves the selected candidate without a plan; on the list it
\* leaves, min_element finds the same candidate and select_best_plan returns
\* its empty plan
C28_WinnerMovedOut ==
    [][(SelectBestPlan /\ candidates # <<>>) =>
          LET k == min_element(candidates)
          IN  /\ Len(candidates') = Len(candidates)
              /\ \A j \in DOMAIN candidates :
                    /\ candidates'[j].cost = candidates[j].cost
                    /\ j # k => candidates'[j].plan = candidates[j].plan
              /\ candidates'[k].plan = NULLPTR
              /\ min_element(candidates') = k
              /\ select_best_plan(candidates') = NULLPTR]_vars

\* select_best_plan ran a second time on the six candidates of a join:
\* it returned no plan, one candidate is without its plan and five hold theirs
C28_Witness ==
    /\ best_from = "select"
    /\ Len(candidates) = 6
    /\ best_plan = NULLPTR
    /\ candidates[min_element(candidates)].plan = NULLPTR
    /\ \A j \in DOMAIN candidates :
          j # min_element(candidates) => candidates[j].plan # NULLPTR

\* the rows of the reference equi-join on left column 0 = right column 1, in
\* probe order: for each right row in order, each matching left row in order
RECURSIVE ReferenceEquiJoin(_, _)
ReferenceEquiJoin(left_rows, right_rows) ==
    IF right_rows = <<>> THEN <<>>
    ELSE LET r == right_rows[Len(right_rows)]
             matches ==
                 SelectSeq(left_rows,
                           LAMBDA l : /\ Len(l) >= 1 /\ l[1].t = "int"
                                      /\ Len(r) >= 2 /\ r[2].t = "int"
                                      /\ l[1].i = r[2].i)
         IN  ReferenceEquiJoin(left_rows, SubSeq(right_rows, 1, Len(right_rows) - 1))
                 \o [k \in DOMAIN matches |-> matches[k] \o r]

\* C25: a HashJoin whose inputs complete returns the left schema followed by
\* the right schema and exactly the rows of the reference equi-join in probe
\* order; rows whose key cannot be read as an int contribute nothing
C25_HashJoinIsEquiJoin ==
    (JoinRan /\ exec_plan.type = "HASH_JOIN") =>
        /\ result.ok
        /\ \E left_result \in execute(exec_plan.children[1], tables),
              right_result \in execute(exec_plan.children[2], tables) :
              /\ result.schema = OutputSchema(exec_plan)
              /\ result.rows = ReferenceEquiJoin(left_result.rows, right_result.rows)

\* a HashJoin of users and orders ran while users held a row whose id is a
\* string: the result has one row per order, in the order of the orders, and
\* none made from that row
C25_Witness ==
    /\ JoinRan
    /\ exec_plan.type = "HASH_JOIN"
    /\ exec_plan.children[1] = scan_of(S_users)
    /\ exec_plan.children[2] = scan_of(S_orders)
    /\ \E k \in DOMAIN tables[S_users].rows : tables[S_users].rows[k][1].t = "string"
    /\ result.ok
    /\ Len(result.rows) = Len(tables[S_orders].rows)
    /\ \A k \in DOMAIN result.rows :
          /\ result.rows[k][1].t = "int"
          /\ SubSeq(result.rows[k], 5, 8) = tables[S_orders].rows[k]

\* a HashJoin of orders and users ran while users held a row with an int in
\* column 1 next to the sample rows, whose column 1 is a name: the result is
\* made from that row alone
C25_WitnessRight ==
    /\ JoinRan
    /\ exec_plan.type = "HASH_JOIN"
    /\ exec_plan.children[1] = scan_of(S_orders)
    /\ exec_plan.children[2] = scan_of(S_users)
    /\ result.ok
    /\ Len(result.rows) = 1
    /\ SubSeq(result.rows[1], 5, 8) = <<IntVal(1), IntVal(2), IntVal(40), StrVal("City1")>>

\* every left row has an int at column 0, every right row an int at column 1,
\* and no two left rows share their key
DistinctLeftKeys(left_rows, right_rows) ==
    /\ \A k \in DOMAIN left_rows : Len(left_rows[k]) >= 1 /\ left_rows[k][1].t = "int"
    /\ \A k \in DOMAIN right_rows : Len(right_rows[k]) >= 2 /\ right_rows[k][2].t = "int"
    /\ \A j, k \in DOMAIN left_rows : j # k => left_rows[j][1].i # left_rows[k][1].i

\* C26: when its inputs have int keys and the left keys are pairwise distinct,
\* every outcome of a SortMergeJoin holds the rows of the reference equi-join
\* on left[0] = right[1], each as often, ordered by non-decreasing left key
C26_SortMergeIsEquiJoin ==
    (JoinRan /\ exec_plan.type = "SORT_MERGE_JOIN") =>
        \A left_result \in execute(exec_plan.children[1], tables),
           right_result \in execute(exec_plan.children[2], tables) :
           DistinctLeftKeys(left_result.rows, right_result.rows) =>
              \A outcome \in {result} \cup execute(exec_plan, tables) :
                 /\ outcome.ok
                 /\ SameMultiset(outcome.rows,
                                 ReferenceEquiJoin(left_result.rows, right_result.rows))
                 /\ \A k \in 1..(Len(outcome.rows) - 1) :
                       outcome.rows[k][1].i <= outcome.rows[k + 1][1].i

\* a SortMergeJoin of users and orders ran while users held user 7, who has
\* no order: every order is in the result with its user, several orders for
\* one user, by rising user id and not in the order of the orders
C26_Witness ==
    /\ JoinRan
    /\ exec_plan.type = "SORT_MERGE_JOIN"
    /\ exec_plan.children[1] = scan_of(S_users)
    /\ exec_plan.children[2] = scan_of(S_orders)
    /\ DistinctLeftKeys(tables[S_users].rows, tables[S_orders].rows)
    /\ \E k \in DOMAIN tables[S_users].rows : tables[S_users].rows[k][1] = IntVal(7)
    /\ result.ok
    /\ Len(result.rows) = Len(tables[S_orders].rows)
    /\ \E j, k \in DOMAIN result.rows : j # k /\ result.rows[j][1] = result.rows[k][1]
    /\ result.rows # ReferenceEquiJoin(tables[S_users].rows, tables[S_orders].rows)

\* C27: a NestedLoopJoin whose inputs complete returns |L| * |R| rows: for
\* the i-th left row and the j-th right row, row (i - 1) * |R| + j is the left
\* row followed by the right row, whatever the join condition says
\* (1000 users x 5000 orders make 5,000,000 rows)
C27_NestedLoopIsProduct ==
    /\ SAMPLE_USERS * SAMPLE_ORDERS = 5000000
    /\ (JoinRan /\ exec_plan.type = "NESTED_LOOP_JOIN") =>
          /\ result.ok
          /\ \E left_result \in execute(exec_plan.children[1], tables),
                right_result \in execute(exec_plan.children[2], tables) :
                /\ Len(result.rows) = Len(left_result.rows) * Len(right_result.rows)
                /\ \A i \in DOMAIN left_result.rows, j \in DOMAIN right_result.rows :
                      result.rows[(i - 1) * Len(right_result.rows) + j]
                          = left_result.rows[i] \o right_result.rows[j]

\* a NestedLoopJoin on "users.id = orders.user_id" ran over users, one of
\* them with a string id, and orders: the result pairs every user with every
\* order, the first user also with orders whose user_id is not his id
C27_Witness ==
    /\ JoinRan
    /\ exec_plan.type = "NESTED_LOOP_JOIN"
    /\ exec_plan.join_condition = S_join_cond
    /\ exec_plan.children[1] = scan_of(S_users)
    /\ exec_plan.children[2] = scan_of(S_orders)
    /\ Len(tables[S_users].rows) = NumUsers + 1
    /\ \E k \in DOMAIN tables[S_users].rows : tables[S_users].rows[k][1].t = "string"
    /\ result.ok
    /\ Len(result.rows) = (NumUsers + 1) * NumOrders
    /\ result.rows[NumOrders] = tables[S_users].rows[1] \o tables[S_orders].rows[NumOrders]
    /\ \E k \in 1..NumOrders : result.rows[k][1] # result.rows[k][6]

\* the one rule the spec gives each condition text of the drivers: the
\* comparison it applies and, for "id = N", the integer N; "none" rejects
\* every row and "all" keeps every row
RuleOf(cond) ==
    CASE cond \in {S_age_gt_25, expression_to_string(where_age_gt_25),
                   CompoundConditions.both_ages} ->
            [column |-> S_age, rule |-> "greater", than |-> 25]
      [] cond \in {S_age_lt_30, CompoundConditions.id_and_age} ->
            [column |-> S_age, rule |-> "less", than |-> 30]
      [] cond = S_id_eq \o <<"7">> ->
            [column |-> S_id, rule |-> "equal", than |-> 7]
      [] cond = CompoundConditions.id_is_2 ->
            [column |-> S_id, rule |-> "equal", than |-> 2]
      [] cond = CompoundConditions.ge_then_id ->
            [column |-> S_id, rule |-> "equal", than |-> 3]
      [] cond = CompoundConditions.user_id_is_1 ->
            [column |-> S_id, rule |-> "equal", than |-> 1]
      [] cond \in {S_id_eq \o S_name, CompoundConditions.name_then_id} ->
            [column |-> S_id, rule |-> "none", than |-> 0]
      [] cond = CompoundConditions.city ->
            [column |-> S_empty, rule |-> "all", than |-> 0]

\* the row passes the rule
Passes(row, schema, rule) ==
    CASE rule.rule = "all" -> TRUE
      [] rule.rule = "none" -> FALSE
      [] rule.rule = "greater" ->
            ReadsInt(row, schema, rule.column)
            /\ row[FirstColumn(schema, rule.column)].i > rule.than
      [] rule.rule = "less" ->
            ReadsInt(row, schema, rule.column)
            /\ row[FirstColumn(schema, rule.column)].i < rule.than
      [] rule.rule = "equal" ->
            ReadsInt(row, schema, rule.column)
            /\ row[FirstColumn(schema, rule.column)].i = rule.than

\* the executed plan is a filter with one of the drivers' condition texts
\* whose child completes
ConditionRan ==
    /\ exec_plan.type = "FILTER"
    /\ exec_plan.children # <<>>
    /\ \/ exec_plan.condition \in SampleConditions
       \/ \E name \in DOMAIN CompoundConditions :
             exec_plan.condition = CompoundConditions[name]
    /\ \A child_result \in execute(exec_plan.children[1], tables) : child_result.ok

\* C29: a filter applies exactly one rule to every row, the first that
\* matches of: the text contains "age > 25" - int age > 25; it contains
\* "age < 30" - int age < 30; it contains "id = " - int id equals the integer
\* after the first "= ", no row when there is none; otherwise every row
C29_OneRuleByPriority ==
    ConditionRan =>
        /\ result.ok
        /\ \E child_result \in execute(exec_plan.children[1], tables) :
              result.rows =
                 SelectSeq(child_result.rows,
                           LAMBDA row : Passes(row, child_result.schema,
                                               RuleOf(exec_plan.condition)))

\* "((age < 30) AND (age > 25))" ran over users holding a user of age 40:
\* that user is in the result, and the sample users, all under 26, are not
C29_Witness ==
    /\ ConditionRan
    /\ exec_plan = filter_over(CompoundConditions.both_ages, scan_of(S_users))
    /\ Len(tables[S_users].rows) > NumUsers
    /\ result.ok
    /\ result.rows # <<>>
    /\ \A k \in DOMAIN result.rows : result.rows[k][3].i >= 30
    /\ \E k \in DOMAIN result.rows : result.rows[k][3] = IntVal(40)

\* the loop of execute_sort_merge_join still runs at these cursors
MergeRuns(left_rows, right_rows, left_idx, right_idx) ==
    left_idx < Len(left_rows) /\ right_idx < Len(right_rows)

RECURSIVE Iterations(_, _, _, _)
\* the number of iterations the merge loop makes from the given cursors
Iterations(left_rows, right_rows, left_idx, right_idx) ==
    IF ~MergeRuns(left_rows, right_rows, left_idx, right_idx) THEN 0
    ELSE LET next == merge_step(left_rows, right_rows, left_idx, right_idx)
         IN  1 + Iterations(left_rows, right_rows, next.left_idx, next.right_idx)

RECURSIVE EachStepAdvancesOne(_, _, _, _)
\* from the given cursors on, every iteration moves exactly one cursor by one,
\* and the loop from here is this iteration followed by the loop from there
EachStepAdvancesOne(left_rows, right_rows, left_idx, right_idx) ==
    IF ~MergeRuns(left_rows, right_rows, left_idx, right_idx) THEN TRUE
    ELSE LET next == merge_step(left_rows, right_rows, left_idx, right_idx)
         IN  /\ \/ next.left_idx = left_idx + 1 /\ next.right_idx = right_idx
                \/ next.left_idx = left_idx /\ next.right_idx = right_idx + 1
             /\ merge_loop(left_rows, right_rows, left_idx, right_idx, <<>>)
                   = merge_loop(left_rows, right_rows, next.left_idx, next.right_idx,
                                next.emitted)
             /\ EachStepAdvancesOne(left_rows, right_rows,
                                    next.left_idx, next.right_idx)

\* the pairs of sorted inputs the merge loop of the executed join may get
MergeInputs ==
    UNION { { <<left_rows, right_rows>> :
                left_rows \in std_sort(left_result.rows, 0),
                right_rows \in std_sort(right_result.rows, 1) } :
            left_result \in execute(exec_plan.children[1], tables),
            right_result \in execute(exec_plan.children[2], tables) }

\* C30: whatever order the sorts leave the rows in, every iteration of the
\* merge loop advances exactly one cursor by one, an iteration whose key read
\* fails included, and the loop ends within |L| + |R| iterations
C30_MergeTerminates ==
    (JoinRan /\ exec_plan.type = "SORT_MERGE_JOIN") =>
        /\ result.ok
        /\ \A input \in MergeInputs :
              /\ EachStepAdvancesOne(input[1], input[2], 0, 0)
              /\ Iterations(input[1], input[2], 0, 0) <= Len(input[1]) + Len(input[2])

\* a SortMergeJoin of users and orders ran while users held a row whose id is
\* a string: the loop met that row against an order, moved the left cursor
\* past it and ended
C30_Witness ==
    /\ JoinRan
    /\ exec_plan.type = "SORT_MERGE_JOIN"
    /\ exec_plan.children[1] = scan_of(S_users)
    /\ exec_plan.children[2] = scan_of(S_orders)
    /\ result.ok
    /\ \E input \in MergeInputs :
          /\ ~CanGetInt(input[1][1], 0)
          /\ merge_step(input[1], input[2], 0, 0)
                = [left_idx |-> 1, right_idx |-> 0, emitted |-> <<>>]
          /\ Iterations(input[1], input[2], 0, 0) > 1
          /\ result.rows = merge_loop(input[1], input[2], 0, 0, <<>>)

\* a SortMergeJoin of orders and users ran: the name in column 1 of the
\* first user is no int, the loop moved the left cursor past every order
\* and ended without a row
C30_WitnessRight ==
    /\ JoinRan
    /\ exec_plan.type = "SORT_MERGE_JOIN"
    /\ exec_plan.children[1] = scan_of(S_orders)
    /\ exec_plan.children[2] = scan_of(S_users)
    /\ result.ok
    /\ result.rows = <<>>
    /\ \E input \in MergeInputs :
          /\ CanGetInt(input[1][1], 0)
          /\ ~CanGetInt(input[2][1], 1)
          /\ Iterations(input[1], input[2], 0, 0) = Len(input[1])

====
